---------------------------- MODULE Spec2Model ----------------------------
(***************************************************************************)
(* State-machine model of the YTBrain client (React front end) and of the  *)
(* backend contract it talks to.                                           *)
(*                                                                         *)
(* JavaScript strings on which the code works character by character       *)
(* (trim, charAt, toUpperCase) are sequences of one-character strings.     *)
(* Opaque texts (error messages, view names, ids) are TLA+ strings.        *)
(* A nullable value is None (<<>>) or Some(v) (<<v>>).                     *)
(***************************************************************************)
EXTENDS Integers, Sequences, FiniteSets, TLC

VARIABLES
    \* ErrorBoundary
    hasError,
    \* VideoContext.jsx
    view, videoData, ctxError, initialChatMessage,
    \* URLInput.jsx
    url, urlLoading, urlError, loadingText, msgIndex, processInFlight, readyTimer,
    \* ChatInterface
    messages, input, chatLoading, currentSources, chatRequest, chatSettled,
    \* SummaryView.jsx
    summaryData, summaryLoading, summaryError, summaryInFlight, summarySettled,
    \* GameView.jsx
    questions, gameLoading, gameError, currentQ, selectedAnswer, showResult,
    isCorrect, openAnswer, grading, gradeFeedback, score, xp, gameComplete,
    questionsInFlight, gradeRequest, gradeSettled,
    \* calls counted: onMetadataLoaded per attempt, getQuestions per video;
    \* whether a question list was loaded for the video
    metadataDeliveries, questionsCalls, quizLoaded,
    \* the backend: VideoRecord status per id, number of processing runs in
    \* progress per id, whether one of them serves the app's request, the ids
    \* other clients' process requests wait for, generation attempts made for
    \* the quiz request being served, whether the grader ever evaluated (or
    \* scored above 0) an answer below its content threshold
    videoStatus, running, appRunning, otherRequests, quizAttempts, fastPathMissed,
    \* the retrieval core: the index registry (video id -> chunks readers see),
    \* the index builds in progress, the chunks of the last completed
    \* index(video_id, chunks) per id, what the last reader (a read of the
    \* chunk set, or a retrieve call) was given since the indexer's last step
    index, staged, indexed, observed,
    \* ToastProvider: the toasts shown, the clock Date.now() reads (ms), the
    \* ids whose duration timer is pending
    toasts, now, toastTimers

ctxVars == <<hasError, view, videoData, ctxError, initialChatMessage>>
urlVars == <<url, urlLoading, urlError, loadingText, msgIndex, processInFlight, readyTimer>>
chatVars == <<messages, input, chatLoading, currentSources, chatRequest, chatSettled>>
summaryVars == <<summaryData, summaryLoading, summaryError, summaryInFlight, summarySettled>>
gameVars == <<questions, gameLoading, gameError, currentQ, selectedAnswer, showResult,
              isCorrect, openAnswer, grading, gradeFeedback, score, xp, gameComplete,
              questionsInFlight, gradeRequest, gradeSettled>>
countVars == <<metadataDeliveries, questionsCalls, quizLoaded>>
coreVars == <<index, staged, indexed, observed>>
serviceVars == <<videoStatus, running, appRunning, otherRequests, quizAttempts,
                 fastPathMissed>>
backendVars == <<serviceVars, coreVars>>
toastVars == <<toasts, now, toastTimers>>
vars == <<ctxVars, urlVars, chatVars, summaryVars, gameVars, countVars, backendVars,
          toastVars>>

---------------------------------------------------------------------------
(* Bounds of the model *)

\* accepted chat sends per visit of the chat view
MaxSends == 4
\* longest question list a /game/{id}/questions response carries
MaxQuestions == 2
\* visits of the game view per loaded video
MaxGameVisits == 2

---------------------------------------------------------------------------
(* Nullable values and JavaScript string primitives *)

None == <<>>
Some(v) == <<v>>
IsSome(o) == Len(o) = 1
Get(o) == o[1]

Min(a, b) == IF a <= b THEN a ELSE b

IsWhiteSpace(c) == c = " "

RECURSIVE TrimStart(_)
TrimStart(s) ==
    IF Len(s) > 0 /\ IsWhiteSpace(s[1]) THEN TrimStart(Tail(s)) ELSE s

RECURSIVE TrimEnd(_)
TrimEnd(s) ==
    IF Len(s) > 0 /\ IsWhiteSpace(s[Len(s)])
    THEN TrimEnd(SubSeq(s, 1, Len(s) - 1))
    ELSE s

\* String.prototype.trim
Trim(s) == TrimEnd(TrimStart(s))

\* String.prototype.charAt(0): the empty string when there is no character
CharAt0(s) == IF Len(s) = 0 THEN <<>> ELSE <<s[1]>>

UpperChar(c) ==
    CASE c = "a" -> "A"
      [] c = "b" -> "B"
      [] c = "c" -> "C"
      [] OTHER -> c

\* String.prototype.toUpperCase
ToUpperCase(s) == [i \in 1..Len(s) |-> UpperChar(s[i])]

\* Array.prototype.slice(-n)
SliceLast(seq, n) ==
    IF Len(seq) <= n THEN seq ELSE SubSeq(seq, Len(seq) - n + 1, Len(seq))

---------------------------------------------------------------------------
(* Values the environment supplies: what the user types, what the HTTP     *)
(* transport returns.                                                      *)

Videos == {"v1", "v2"}

\* text typed into the URL field
UrlInputs == {<<>>, <<" ">>, <<"u">>}

\* response.data of POST /video/process
ProcessPayloads == {[video_id |-> v, status |-> "ready"] : v \in Videos}

\* what axios rejects with
RequestErrors ==
    { [code |-> "ECONNABORTED", response |-> None, request |-> TRUE, message |-> "timeout"],
      [code |-> "ERR_BAD_RESPONSE", response |-> Some([status |-> 500, detail |-> None]),
       request |-> TRUE, message |-> "500"],
      [code |-> "ERR_BAD_REQUEST", response |-> Some([status |-> 400, detail |-> Some("NoTranscript")]),
       request |-> TRUE, message |-> "400"],
      [code |-> "ERR_NETWORK", response |-> None, request |-> TRUE, message |-> "Network Error"],
      [code |-> "ERR", response |-> None, request |-> FALSE, message |-> ""] }

\* text typed into the chat field
ChatInputs == {<<>>, <<" ">>, <<"p">>, <<"q", " ">>}

ChatSource == [text |-> "chunk", start_time |-> 30]

\* response.data of POST /chat
ChatPayloads ==
    { [answer |-> <<"x">>, sources |-> None],
      [answer |-> <<"y">>, sources |-> Some(<<ChatSource>>)] }

---------------------------------------------------------------------------
(* VideoContext.jsx *)

ViewNames == {"home", "processing", "video", "chat", "summary", "game"}

\* the initial state of URLInput's hooks
UrlInputMounted ==
    /\ url' = <<>>
    /\ urlLoading' = FALSE
    /\ urlError' = "null"
    /\ loadingText' = "Extracting transcript..."
    /\ msgIndex' = 0
    /\ processInFlight' = 0
    /\ readyTimer' = None

\* ChatMounted keeping the messages of the last visit
ChatMounted_KeepsMessages(initialMessage) ==
    /\ messages' = messages
    /\ input' = initialMessage
    /\ chatLoading' = FALSE
    /\ currentSources' = <<>>
    /\ chatRequest' = None
    /\ chatSettled' = "none"

\* the initial state of ChatInterface's hooks, and the effect on initialMessage
ChatMounted(initialMessage) ==
    /\ messages' = << [role |-> "assistant", content |-> <<"H", "i">>, sources |-> None] >>
    /\ input' = initialMessage
    /\ chatLoading' = FALSE
    /\ currentSources' = <<>>
    /\ chatRequest' = None
    /\ chatSettled' = "none"

\* the initial state of SummaryView's hooks; the effect issues getSummary
SummaryMounted ==
    /\ summaryData' = None
    /\ summaryLoading' = TRUE
    /\ summaryError' = "null"
    /\ summaryInFlight' = TRUE
    /\ summarySettled' = None

\* the hooks of an unmounted SummaryView: nothing is shown, a late response is dropped
SummaryUnmounted ==
    /\ summaryData' = None
    /\ summaryLoading' = TRUE
    /\ summaryError' = "null"
    /\ summaryInFlight' = FALSE
    /\ summarySettled' = None

\* the initial state of GameView's hooks; the effect issues getQuestions
GameMounted ==
    /\ questions' = <<>>
    /\ gameLoading' = TRUE
    /\ gameError' = "null"
    /\ currentQ' = 0
    /\ selectedAnswer' = None
    /\ showResult' = FALSE
    /\ isCorrect' = FALSE
    /\ openAnswer' = <<>>
    /\ grading' = FALSE
    /\ gradeFeedback' = None
    /\ score' = 0
    /\ xp' = 0
    /\ gameComplete' = FALSE
    /\ questionsInFlight' = TRUE
    /\ gradeRequest' = None
    /\ gradeSettled' = "none"

\* the hooks of an unmounted GameView
GameUnmounted ==
    /\ questions' = <<>>
    /\ gameLoading' = TRUE
    /\ gameError' = "null"
    /\ currentQ' = 0
    /\ selectedAnswer' = None
    /\ showResult' = FALSE
    /\ isCorrect' = FALSE
    /\ openAnswer' = <<>>
    /\ grading' = FALSE
    /\ gradeFeedback' = None
    /\ score' = 0
    /\ xp' = 0
    /\ gameComplete' = FALSE
    /\ questionsInFlight' = FALSE
    /\ gradeRequest' = None
    /\ gradeSettled' = "none"

\* App.jsx renders exactly the component of the current view: the others are
\* unmounted and a component entered again starts from its initial hooks
Render(oldView, newView) ==
    /\ IF newView \in {"home", "processing"}
       THEN IF oldView \in {"home", "processing"} THEN UNCHANGED urlVars ELSE UrlInputMounted
       ELSE UrlInputMounted
    /\ IF newView = "chat"
       THEN IF oldView = "chat" THEN UNCHANGED chatVars ELSE ChatMounted(initialChatMessage')
       ELSE ChatMounted(<<>>)
    /\ IF newView = "summary"
       THEN IF oldView = "summary" THEN UNCHANGED summaryVars ELSE SummaryMounted
       ELSE SummaryUnmounted
    /\ IF newView = "game"
       THEN IF oldView = "game" THEN UNCHANGED gameVars ELSE GameMounted
       ELSE GameUnmounted

\* navigate without the reset on the way home
navigate_KeepsVideo(newView) ==
    /\ UNCHANGED <<videoData, ctxError>>
    /\ IF newView # "chat"
       THEN initialChatMessage' = <<>>
       ELSE UNCHANGED initialChatMessage
    /\ view' = newView

\* navigate(newView) with no payload
navigate(newView) ==
    /\ IF newView = "home"
       THEN videoData' = None /\ ctxError' = "null"
       ELSE UNCHANGED <<videoData, ctxError>>
    /\ IF newView # "chat"
       THEN initialChatMessage' = <<>>
       ELSE UNCHANGED initialChatMessage
    /\ view' = newView

Init ==
    /\ hasError = FALSE
    /\ view = "home"
    /\ videoData = None
    /\ ctxError = "null"
    /\ initialChatMessage = <<>>
    /\ url = <<>>
    /\ urlLoading = FALSE
    /\ urlError = "null"
    /\ loadingText = "Extracting transcript..."
    /\ msgIndex = 0
    /\ processInFlight = 0
    /\ readyTimer = None
    /\ messages = << [role |-> "assistant", content |-> <<"H", "i">>, sources |-> None] >>
    /\ input = <<>>
    /\ chatLoading = FALSE
    /\ currentSources = <<>>
    /\ chatRequest = None
    /\ chatSettled = "none"
    /\ summaryData = None
    /\ summaryLoading = TRUE
    /\ summaryError = "null"
    /\ summaryInFlight = FALSE
    /\ summarySettled = None
    /\ questions = <<>>
    /\ gameLoading = TRUE
    /\ gameError = "null"
    /\ currentQ = 0
    /\ selectedAnswer = None
    /\ showResult = FALSE
    /\ isCorrect = FALSE
    /\ openAnswer = <<>>
    /\ grading = FALSE
    /\ gradeFeedback = None
    /\ score = 0
    /\ xp = 0
    /\ gameComplete = FALSE
    /\ questionsInFlight = FALSE
    /\ gradeRequest = None
    /\ gradeSettled = "none"
    /\ metadataDeliveries = 0
    /\ questionsCalls = 0
    /\ quizLoaded = FALSE
    /\ videoStatus = [v \in Videos |-> "none"]
    /\ running = [v \in Videos |-> 0]
    /\ appRunning = FALSE
    /\ otherRequests = {}
    /\ quizAttempts = 0
    /\ toasts = <<>>
    /\ now = 0
    /\ toastTimers = {}
    /\ fastPathMissed = FALSE
    /\ index = [v \in Videos |-> None]
    /\ staged = [v \in Videos |-> None]
    /\ indexed = [v \in Videos |-> None]
    /\ observed = None

---------------------------------------------------------------------------
(* URLInput.jsx *)

loadingMessages ==
    << "Fetching video info...", "Extracting transcript...",
       "Building knowledge base...", "Almost ready..." >>

\* SubmitDisabled without the loading flag
SubmitDisabled_IgnoresLoading == Trim(url) = <<>>

\* the submit button's disabled attribute
SubmitDisabled == urlLoading \/ Trim(url) = <<>>

\* the catch block's choice of message
ErrorMessage(err) ==
    IF err.code = "ECONNABORTED"
    THEN "Request timed out. The video is too long or server is busy."
    ELSE IF IsSome(err.response)
         THEN IF IsSome(Get(err.response).detail)
              THEN Get(Get(err.response).detail)
              ELSE "Server Error"
         ELSE IF err.request
              THEN "Network Error - Backend unreachable."
              ELSE IF err.message # "" THEN err.message ELSE "Unknown Error"

\* onChange of the URL field (disabled while loading)
SetUrl ==
    /\ ~hasError
    /\ view \in {"home", "processing"}
    /\ ~urlLoading
    /\ \E u \in UrlInputs : url' = u
    /\ UNCHANGED <<urlLoading, urlError, loadingText, msgIndex, processInFlight, readyTimer>>
    /\ UNCHANGED <<ctxVars, chatVars, summaryVars, gameVars, countVars, backendVars, toastVars>>

\* HandleSubmit without setError(null)
HandleSubmit_KeepsError ==
    /\ ~hasError
    /\ view \in {"home", "processing"}
    /\ ~SubmitDisabled
    /\ Trim(url) # <<>>
    /\ urlLoading' = TRUE
    /\ view' = "processing"
    /\ msgIndex' = 0
    /\ processInFlight' = processInFlight + 1
    /\ metadataDeliveries' = 0
    /\ UNCHANGED <<url, urlError, loadingText, readyTimer>>
    /\ UNCHANGED <<hasError, videoData, ctxError, initialChatMessage, questionsCalls, quizLoaded>>
    /\ UNCHANGED <<chatVars, summaryVars, gameVars, backendVars, toastVars>>

\* handleSubmit up to the await: the form submits only through its enabled button
HandleSubmit ==
    /\ ~hasError
    /\ view \in {"home", "processing"}
    /\ ~SubmitDisabled
    /\ Trim(url) # <<>>
    /\ urlLoading' = TRUE
    /\ urlError' = "null"
    /\ view' = "processing"
    /\ msgIndex' = 0
    /\ processInFlight' = processInFlight + 1
    /\ metadataDeliveries' = 0
    /\ UNCHANGED <<url, loadingText, readyTimer>>
    /\ UNCHANGED <<hasError, videoData, ctxError, initialChatMessage, questionsCalls, quizLoaded>>
    /\ UNCHANGED <<chatVars, summaryVars, gameVars, backendVars, toastVars>>

\* the setInterval callback cycling the loading messages
LoadingTick ==
    /\ ~hasError
    /\ processInFlight > 0
    /\ msgIndex' = (msgIndex + 1) % Len(loadingMessages)
    /\ loadingText' = loadingMessages[msgIndex' + 1]
    /\ UNCHANGED <<url, urlLoading, urlError, processInFlight, readyTimer>>
    /\ UNCHANGED <<ctxVars, chatVars, summaryVars, gameVars, countVars, backendVars, toastVars>>

\* handleSubmit after the await resolved with response.data = data:
\* schedules the 500 ms timer
ProcessResolvedWith(data) ==
    /\ ~hasError
    /\ processInFlight > 0
    /\ readyTimer' = Some(data)
    /\ processInFlight' = processInFlight - 1
    /\ loadingText' = "Ready to chat!"
    /\ UNCHANGED <<url, urlLoading, urlError, msgIndex>>
    /\ UNCHANGED <<ctxVars, chatVars, summaryVars, gameVars, countVars>>

\* ProcessRejectedWith without setLoading(false)
ProcessRejectedWith_KeepsLoading(err) ==
    /\ ~hasError
    /\ processInFlight > 0
    /\ urlError' = ErrorMessage(err)
    /\ processInFlight' = processInFlight - 1
    /\ UNCHANGED <<url, urlLoading, loadingText, msgIndex, readyTimer>>
    /\ UNCHANGED <<ctxVars, chatVars, summaryVars, gameVars, countVars>>

\* handleSubmit's catch block, the await having rejected with err
ProcessRejectedWith(err) ==
    /\ ~hasError
    /\ processInFlight > 0
    /\ urlError' = ErrorMessage(err)
    /\ urlLoading' = FALSE
    /\ processInFlight' = processInFlight - 1
    /\ UNCHANGED <<url, loadingText, msgIndex, readyTimer>>
    /\ UNCHANGED <<ctxVars, chatVars, summaryVars, gameVars, countVars>>

ProcessResolved ==
    /\ \E data \in ProcessPayloads : ProcessResolvedWith(data)
    /\ UNCHANGED <<backendVars, toastVars>>

ProcessRejected ==
    /\ \E err \in RequestErrors : ProcessRejectedWith(err)
    /\ UNCHANGED <<backendVars, toastVars>>

\* the 500 ms timer: onMetadataLoaded(response.data), which is
\* MainContent.handleMetadataLoaded, then setLoading(false)
ReadyTimerFires ==
    /\ ~hasError
    /\ IsSome(readyTimer)
    /\ videoData' = readyTimer
    /\ initialChatMessage' = <<>>
    /\ view' = "video"
    /\ Render(view, "video")
    /\ metadataDeliveries' = metadataDeliveries + 1
    /\ questionsCalls' = 0
    /\ quizLoaded' = FALSE
    /\ UNCHANGED <<hasError, ctxError, backendVars, toastVars>>

---------------------------------------------------------------------------
(* App.jsx: the buttons that change the view *)

\* "Back to Search" of the dashboard
BackToSearch ==
    /\ ~hasError
    /\ view = "video" /\ IsSome(videoData)
    /\ navigate("home")
    /\ Render(view, "home")
    /\ metadataDeliveries' = 0
    /\ questionsCalls' = 0
    /\ quizLoaded' = FALSE
    /\ UNCHANGED <<hasError, backendVars, toastVars>>

\* VideoCard.onStartChat
StartChat ==
    /\ ~hasError
    /\ view = "video" /\ IsSome(videoData)
    /\ navigate("chat")
    /\ Render(view, "chat")
    /\ UNCHANGED <<hasError, countVars, backendVars, toastVars>>

\* VideoCard.onStartSummary: mounting SummaryView runs the effect that calls getSummary
StartSummary ==
    /\ ~hasError
    /\ view = "video" /\ IsSome(videoData)
    /\ navigate("summary")
    /\ Render(view, "summary")
    /\ UNCHANGED <<hasError, countVars, backendVars, toastVars>>

\* VideoCard.onStartGame: mounting GameView runs the effect that calls getQuestions
StartGame ==
    /\ ~hasError
    /\ view = "video" /\ IsSome(videoData)
    /\ questionsCalls < MaxGameVisits
    /\ navigate("game")
    /\ Render(view, "game")
    /\ questionsCalls' = questionsCalls + 1
    /\ UNCHANGED <<hasError, metadataDeliveries, quizLoaded, backendVars, toastVars>>

\* whether the rendered component shows its onBack button
BackShown ==
    \/ view = "chat"
    \/ view = "summary" /\ ~summaryLoading
    \/ view = "game" /\ ~gameLoading

\* whether the rendered component shows its onGoHome button
GoHomeShown ==
    \/ view = "chat"
    \/ view = "summary" /\ ~summaryLoading /\ summaryError = "null"
    \/ view = "game" /\ ~gameLoading /\ gameError = "null" /\ ~gameComplete

\* onBack of ChatInterface, SummaryView and GameView
OnBack ==
    /\ ~hasError
    /\ IsSome(videoData)
    /\ BackShown
    /\ navigate("video")
    /\ Render(view, "video")
    /\ UNCHANGED <<hasError, countVars, backendVars, toastVars>>

\* onGoHome of ChatInterface, SummaryView and GameView
OnGoHome ==
    /\ ~hasError
    /\ IsSome(videoData)
    /\ GoHomeShown
    /\ navigate("home")
    /\ Render(view, "home")
    /\ metadataDeliveries' = 0
    /\ questionsCalls' = 0
    /\ quizLoaded' = FALSE
    /\ UNCHANGED <<hasError, backendVars, toastVars>>

\* ErrorBoundary.handleRetry: window.location.reload()
HandleRetry ==
    /\ hasError
    /\ hasError' = FALSE
    /\ videoData' = None /\ ctxError' = "null" /\ initialChatMessage' = <<>>
    /\ view' = "home"
    /\ Render(view, "home")
    /\ metadataDeliveries' = 0
    /\ questionsCalls' = 0
    /\ quizLoaded' = FALSE
    /\ UNCHANGED <<backendVars, toastVars>>

---------------------------------------------------------------------------
(* ChatInterface *)

HistoryLimit == 6

ErrorNotice == <<"S", "o", "r", "r", "y">>

\* History with the first six messages kept instead of the last six
History_FirstSix(msgs) ==
    LET recent == SubSeq(msgs, 1, Min(Len(msgs), HistoryLimit))
    IN  [i \in 1..Len(recent) |-> [role |-> recent[i].role, content |-> recent[i].content]]

\* messages.slice(-6).map(m => ({ role: m.role, content: m.content }))
History(msgs) ==
    LET recent == SliceLast(msgs, HistoryLimit)
    IN  [i \in 1..Len(recent) |-> [role |-> recent[i].role, content |-> recent[i].content]]

NumSends == Cardinality({i \in 1..Len(messages) : messages[i].role = "user"})

\* the send button's disabled attribute
SendDisabled == Trim(input) = <<>> \/ chatLoading

\* onChange of the chat field (disabled while loading)
SetInput ==
    /\ ~hasError
    /\ view = "chat" /\ IsSome(videoData)
    /\ ~chatLoading
    /\ \E t \in ChatInputs : input' = t
    /\ UNCHANGED <<messages, chatLoading, currentSources, chatRequest, chatSettled>>
    /\ UNCHANGED <<ctxVars, urlVars, summaryVars, gameVars, countVars, backendVars, toastVars>>

\* HandleSend without the reset of currentSources
HandleSend_KeepsSources ==
    /\ ~hasError
    /\ view = "chat" /\ IsSome(videoData)
    /\ ~SendDisabled
    /\ ~(Trim(input) = <<>> \/ chatLoading)
    /\ NumSends < MaxSends
    /\ messages' = Append(messages, [role |-> "user", content |-> input, sources |-> None])
    /\ input' = <<>>
    /\ chatLoading' = TRUE
    /\ chatRequest' = Some([video_id |-> Get(videoData).video_id,
                            message |-> input,
                            history |-> History(messages)])
    /\ chatSettled' = "none"
    /\ UNCHANGED currentSources
    /\ UNCHANGED <<ctxVars, urlVars, summaryVars, gameVars, countVars, backendVars, toastVars>>

\* handleSend up to the await
HandleSend ==
    /\ ~hasError
    /\ view = "chat" /\ IsSome(videoData)
    /\ ~SendDisabled
    /\ ~(Trim(input) = <<>> \/ chatLoading)
    /\ NumSends < MaxSends
    /\ messages' = Append(messages, [role |-> "user", content |-> input, sources |-> None])
    /\ input' = <<>>
    /\ chatLoading' = TRUE
    /\ currentSources' = <<>>
    /\ chatRequest' = Some([video_id |-> Get(videoData).video_id,
                            message |-> input,
                            history |-> History(messages)])
    /\ chatSettled' = "none"
    /\ UNCHANGED <<ctxVars, urlVars, summaryVars, gameVars, countVars, backendVars, toastVars>>

\* handleSend after sendChat resolved
ChatResolved ==
    /\ ~hasError
    /\ view = "chat" /\ IsSome(chatRequest)
    /\ \E response \in ChatPayloads :
         /\ messages' = Append(messages, [role |-> "assistant",
                                          content |-> response.answer,
                                          sources |-> response.sources])
         /\ currentSources' = IF IsSome(response.sources)
                              THEN Get(response.sources)
                              ELSE currentSources
    /\ chatLoading' = FALSE
    /\ chatRequest' = None
    /\ chatSettled' = "resolved"
    /\ UNCHANGED input
    /\ UNCHANGED <<ctxVars, urlVars, summaryVars, gameVars, countVars, backendVars, toastVars>>

\* ChatRejected appending no error notice
ChatRejected_NoNotice ==
    /\ ~hasError
    /\ view = "chat" /\ IsSome(chatRequest)
    /\ messages' = messages
    /\ chatLoading' = FALSE
    /\ chatRequest' = None
    /\ chatSettled' = "rejected"
    /\ UNCHANGED <<input, currentSources>>
    /\ UNCHANGED <<ctxVars, urlVars, summaryVars, gameVars, countVars, backendVars, toastVars>>

\* handleSend's catch block
ChatRejected ==
    /\ ~hasError
    /\ view = "chat" /\ IsSome(chatRequest)
    /\ messages' = Append(messages, [role |-> "assistant",
                                     content |-> ErrorNotice,
                                     sources |-> None])
    /\ chatLoading' = FALSE
    /\ chatRequest' = None
    /\ chatSettled' = "rejected"
    /\ UNCHANGED <<input, currentSources>>
    /\ UNCHANGED <<ctxVars, urlVars, summaryVars, gameVars, countVars, backendVars, toastVars>>

---------------------------------------------------------------------------
(* SummaryView.jsx *)

DeepConcept == [name |-> "concept", explanation |-> "why", start_time |-> 30]

\* response.data of GET /video/{id}/summary as the transport may deliver it:
\* any field may be missing, the overview may be the empty string
SummaryPayloads ==
    { [overview |-> o, deep_concepts |-> d, actionable_takeaways |-> t] :
        o \in {None, Some(""), Some("An overview")},
        d \in {None, Some(<<>>), Some(<<DeepConcept>>)},
        t \in {Some(<<>>), Some(<<"takeaway">>)} }

\* safeSummary of fetchSummary
SafeSummary(data) ==
    [ overview |-> IF IsSome(data.overview) /\ Get(data.overview) # ""
                   THEN Get(data.overview)
                   ELSE "No overview available.",
      deep_concepts |-> IF IsSome(data.deep_concepts) THEN Get(data.deep_concepts) ELSE <<>>,
      actionable_takeaways |-> IF IsSome(data.actionable_takeaways)
                               THEN Get(data.actionable_takeaways)
                               ELSE <<>> ]

\* fetchSummary after getSummary resolved with data
SummaryResolvedWith(data) ==
    /\ ~hasError
    /\ view = "summary" /\ summaryInFlight
    /\ summaryData' = Some(SafeSummary(data))
    /\ summaryLoading' = FALSE
    /\ summaryInFlight' = FALSE
    /\ summarySettled' = Some([ok |-> TRUE, data |-> data])
    /\ UNCHANGED summaryError
    /\ UNCHANGED <<ctxVars, urlVars, chatVars, gameVars, countVars>>

\* SummaryRejectedWith storing the default summary instead of the error
SummaryRejectedWith_Default(err) ==
    /\ ~hasError
    /\ view = "summary" /\ summaryInFlight
    /\ summaryData' = Some(SafeSummary([overview |-> None, deep_concepts |-> None,
                                         actionable_takeaways |-> None]))
    /\ summaryLoading' = FALSE
    /\ summaryInFlight' = FALSE
    /\ summarySettled' = Some([ok |-> FALSE, err |-> err])
    /\ UNCHANGED summaryError
    /\ UNCHANGED <<ctxVars, urlVars, chatVars, gameVars, countVars>>

\* fetchSummary's catch block
SummaryRejectedWith(err) ==
    /\ ~hasError
    /\ view = "summary" /\ summaryInFlight
    /\ summaryError' = "Failed to load summary. The video might not be fully processed yet."
    /\ summaryLoading' = FALSE
    /\ summaryInFlight' = FALSE
    /\ summarySettled' = Some([ok |-> FALSE, err |-> err])
    /\ UNCHANGED summaryData
    /\ UNCHANGED <<ctxVars, urlVars, chatVars, gameVars, countVars>>

SummaryResolved ==
    /\ \E data \in SummaryPayloads : SummaryResolvedWith(data)
    /\ UNCHANGED <<backendVars, toastVars>>

SummaryRejected ==
    /\ \E err \in RequestErrors : SummaryRejectedWith(err)
    /\ UNCHANGED <<backendVars, toastVars>>

\* what SummaryView renders
SummaryShown ==
    IF summaryLoading THEN "skeleton"
    ELSE IF summaryError # "null" THEN "error"
    ELSE "summary"

---------------------------------------------------------------------------
(* GameView.jsx *)

\* Questions a /game/{id}/questions response may carry
McqUpper ==
    [ type |-> "mcq", question |-> "Q1", difficulty |-> "easy",
      options |-> Some(<< <<"A", ".">>, <<"B", ".">> >>), correct |-> Some(<<"B">>) ]
McqLower ==
    [ type |-> "mcq", question |-> "Q2", difficulty |-> "medium",
      options |-> Some(<< <<"a", ")">>, <<"b", ")">>, <<"c", ")">> >>),
      correct |-> Some(<<"A", ".">>) ]
McqTwoMatch ==
    [ type |-> "mcq", question |-> "Q3", difficulty |-> "hard",
      options |-> Some(<< <<"A", ".">>, <<"a", ")">> >>), correct |-> Some(<<"a">>) ]
McqNoCorrect ==
    [ type |-> "mcq", question |-> "Q4", difficulty |-> "easy",
      options |-> Some(<< <<"A", ".">>, <<>> >>), correct |-> None ]
OpenHard ==
    [ type |-> "open", question |-> "Q5", difficulty |-> "hard",
      options |-> None, correct |-> Some(<<"r">>) ]

QuestionPool == {McqUpper, McqLower, McqTwoMatch, McqNoCorrect, OpenHard}

SeqsUpTo(S, n) == UNION {[1..k -> S] : k \in 0..n}

\* response.data of GET /game/{id}/questions as the transport may deliver it
QuestionsPayloads ==
    {[questions |-> Some(l)] : l \in SeqsUpTo(QuestionPool, MaxQuestions)}
        \cup {[questions |-> None]}

\* text typed into the answer field
OpenAnswers == {<<>>, <<" ">>, <<"r">>}

\* response.data of POST /game/grade as the transport may deliver it
GradePayloads ==
    { [score |-> 0, feedback |-> "f0", xp_earned |-> Some(0)],
      [score |-> 1, feedback |-> "f1", xp_earned |-> Some(6)],
      [score |-> 2, feedback |-> "f2", xp_earned |-> None],
      [score |-> 3, feedback |-> "f3", xp_earned |-> Some(20)] }

\* const currentQuestion = questions[currentQ]
HasCurrentQuestion == currentQ < Len(questions)
CurrentQuestion == questions[currentQ + 1]

\* the render reaches the question card
CardShown ==
    view = "game" /\ ~gameLoading /\ gameError = "null" /\ ~gameComplete

\* the card shows the option buttons rather than the answer field
OptionsShown(q) ==
    q.type = "mcq" /\ IsSome(q.options) /\ Len(Get(q.options)) > 0

\* McqCorrect with the option's letter compared as written
McqCorrect_CaseSensitive(option, q) ==
    LET letter == CharAt0(option)
    IN  IsSome(q.correct) /\ ToUpperCase(CharAt0(Get(q.correct))) = letter

\* handleMCQSelect's judgement of an option
McqCorrect(option, q) ==
    LET letter == ToUpperCase(CharAt0(option))
    IN  IsSome(q.correct) /\ ToUpperCase(CharAt0(Get(q.correct))) = letter

\* OptionMarkedCorrect with the option's letter compared as written
OptionMarkedCorrect_CaseSensitive(opt, q) ==
    LET letter == CharAt0(opt)
    IN  IsSome(q.correct) /\ letter = ToUpperCase(CharAt0(Get(q.correct)))

\* the render's choice of the option shown in green once the result is shown
OptionMarkedCorrect(opt, q) ==
    LET letter == ToUpperCase(CharAt0(opt))
    IN  IsSome(q.correct) /\ letter = ToUpperCase(CharAt0(Get(q.correct)))

\* Points awarding the same amount whatever the difficulty
Points_Flat(q) == 10

\* const points = currentQuestion.difficulty === 'easy' ? 10 : 20
Points(q) == IF q.difficulty = "easy" THEN 10 ELSE 20

\* QuestionsResolvedWith keeping all but the last question
QuestionsResolvedWith_DropsLast(data) ==
    /\ ~hasError
    /\ view = "game" /\ questionsInFlight
    /\ IF IsSome(data.questions)
       THEN /\ questions' = SubSeq(Get(data.questions), 1, Len(Get(data.questions)) - 1)
            /\ gameError' = gameError
            /\ hasError' = (Len(questions') = 0)
            /\ quizLoaded' = TRUE
       ELSE /\ gameError' = "Failed to load questions. Unexpected format."
            /\ UNCHANGED <<questions, hasError, quizLoaded>>
    /\ gameLoading' = FALSE
    /\ questionsInFlight' = FALSE
    /\ UNCHANGED <<currentQ, selectedAnswer, showResult, isCorrect, openAnswer, grading,
                   gradeFeedback, score, xp, gameComplete, gradeRequest, gradeSettled>>
    /\ UNCHANGED <<view, videoData, ctxError, initialChatMessage>>
    /\ UNCHANGED <<urlVars, chatVars, summaryVars, metadataDeliveries, questionsCalls>>

\* fetchQuestions after getQuestions resolved with data; a card rendered with
\* no current question throws, which ErrorBoundary catches
QuestionsResolvedWith(data) ==
    /\ ~hasError
    /\ view = "game" /\ questionsInFlight
    /\ IF IsSome(data.questions)
       THEN /\ questions' = Get(data.questions)
            /\ gameError' = gameError
            /\ hasError' = (Len(Get(data.questions)) = 0)
            /\ quizLoaded' = TRUE
       ELSE /\ gameError' = "Failed to load questions. Unexpected format."
            /\ UNCHANGED <<questions, hasError, quizLoaded>>
    /\ gameLoading' = FALSE
    /\ questionsInFlight' = FALSE
    /\ UNCHANGED <<currentQ, selectedAnswer, showResult, isCorrect, openAnswer, grading,
                   gradeFeedback, score, xp, gameComplete, gradeRequest, gradeSettled>>
    /\ UNCHANGED <<view, videoData, ctxError, initialChatMessage>>
    /\ UNCHANGED <<urlVars, chatVars, summaryVars, metadataDeliveries, questionsCalls>>

\* QuestionsRejectedWith setting no error
QuestionsRejectedWith_NoError(err) ==
    /\ ~hasError
    /\ view = "game" /\ questionsInFlight
    /\ gameError' = gameError
    /\ gameLoading' = FALSE
    /\ questionsInFlight' = FALSE
    /\ UNCHANGED <<questions, currentQ, selectedAnswer, showResult, isCorrect, openAnswer,
                   grading, gradeFeedback, score, xp, gameComplete, gradeRequest, gradeSettled>>
    /\ UNCHANGED <<ctxVars, urlVars, chatVars, summaryVars, countVars>>

\* fetchQuestions' catch block
QuestionsRejectedWith(err) ==
    /\ ~hasError
    /\ view = "game" /\ questionsInFlight
    /\ gameError' = "Failed to load quiz questions. Try again later."
    /\ gameLoading' = FALSE
    /\ questionsInFlight' = FALSE
    /\ UNCHANGED <<questions, currentQ, selectedAnswer, showResult, isCorrect, openAnswer,
                   grading, gradeFeedback, score, xp, gameComplete, gradeRequest, gradeSettled>>
    /\ UNCHANGED <<ctxVars, urlVars, chatVars, summaryVars, countVars>>

QuestionsResolved ==
    /\ \E data \in QuestionsPayloads : QuestionsResolvedWith(data)
    /\ UNCHANGED <<backendVars, toastVars>>

QuestionsRejected ==
    /\ \E err \in RequestErrors : QuestionsRejectedWith(err)
    /\ UNCHANGED <<backendVars, toastVars>>

\* HandleMCQSelect without the check of showResult
HandleMCQSelect_NoGuard ==
    /\ ~hasError
    /\ CardShown /\ HasCurrentQuestion /\ OptionsShown(CurrentQuestion)
    /\ \E idx \in 1..Len(Get(CurrentQuestion.options)) :
         LET option == Get(CurrentQuestion.options)[idx]
             correct == McqCorrect(option, CurrentQuestion)
         IN  /\ selectedAnswer' = Some(option)
             /\ isCorrect' = correct
             /\ showResult' = TRUE
             /\ score' = IF correct THEN score + 1 ELSE score
             /\ xp' = IF correct THEN xp + Points(CurrentQuestion) ELSE xp
    /\ UNCHANGED <<questions, gameLoading, gameError, currentQ, openAnswer, grading,
                   gradeFeedback, gameComplete, questionsInFlight, gradeRequest, gradeSettled>>
    /\ UNCHANGED <<ctxVars, urlVars, chatVars, summaryVars, countVars, backendVars, toastVars>>

\* handleMCQSelect(option), from an option button (disabled once the result is shown)
HandleMCQSelect ==
    /\ ~hasError
    /\ CardShown /\ HasCurrentQuestion /\ OptionsShown(CurrentQuestion)
    /\ ~showResult
    /\ \E idx \in 1..Len(Get(CurrentQuestion.options)) :
         LET option == Get(CurrentQuestion.options)[idx]
             correct == McqCorrect(option, CurrentQuestion)
         IN  /\ selectedAnswer' = Some(option)
             /\ isCorrect' = correct
             /\ showResult' = TRUE
             /\ score' = IF correct THEN score + 1 ELSE score
             /\ xp' = IF correct THEN xp + Points(CurrentQuestion) ELSE xp
    /\ UNCHANGED <<questions, gameLoading, gameError, currentQ, openAnswer, grading,
                   gradeFeedback, gameComplete, questionsInFlight, gradeRequest, gradeSettled>>
    /\ UNCHANGED <<ctxVars, urlVars, chatVars, summaryVars, countVars, backendVars, toastVars>>

\* onChange of the answer field (disabled once the result is shown)
SetOpenAnswer ==
    /\ ~hasError
    /\ CardShown /\ HasCurrentQuestion /\ ~OptionsShown(CurrentQuestion)
    /\ ~showResult
    /\ \E t \in OpenAnswers : openAnswer' = t
    /\ UNCHANGED <<questions, gameLoading, gameError, currentQ, selectedAnswer, showResult,
                   isCorrect, grading, gradeFeedback, score, xp, gameComplete,
                   questionsInFlight, gradeRequest, gradeSettled>>
    /\ UNCHANGED <<ctxVars, urlVars, chatVars, summaryVars, countVars, backendVars, toastVars>>

\* the submit button's disabled attribute
OpenSubmitDisabled == Trim(openAnswer) = <<>> \/ grading

\* HandleOpenSubmit checking only that no grading is in progress
HandleOpenSubmit_NoBlankGuard ==
    /\ ~hasError
    /\ CardShown /\ HasCurrentQuestion /\ ~OptionsShown(CurrentQuestion)
    /\ ~showResult
    /\ ~grading
    /\ grading' = TRUE
    /\ gradeRequest' = Some([ question |-> CurrentQuestion.question,
                              correct_answer |-> CurrentQuestion.correct,
                              user_answer |-> openAnswer,
                              difficulty |-> CurrentQuestion.difficulty ])
    /\ gradeSettled' = "none"
    /\ UNCHANGED <<questions, gameLoading, gameError, currentQ, selectedAnswer, showResult,
                   isCorrect, openAnswer, gradeFeedback, score, xp, gameComplete,
                   questionsInFlight>>
    /\ UNCHANGED <<ctxVars, urlVars, chatVars, summaryVars, countVars, backendVars, toastVars>>

\* HandleOpenSubmit without its guard and with the button never disabled
HandleOpenSubmit_NoGuard ==
    /\ ~hasError
    /\ CardShown /\ HasCurrentQuestion /\ ~OptionsShown(CurrentQuestion)
    /\ ~showResult
    /\ grading' = TRUE
    /\ gradeRequest' = Some([ question |-> CurrentQuestion.question,
                              correct_answer |-> CurrentQuestion.correct,
                              user_answer |-> openAnswer,
                              difficulty |-> CurrentQuestion.difficulty ])
    /\ gradeSettled' = "none"
    /\ UNCHANGED <<questions, gameLoading, gameError, currentQ, selectedAnswer, showResult,
                   isCorrect, openAnswer, gradeFeedback, score, xp, gameComplete,
                   questionsInFlight>>
    /\ UNCHANGED <<ctxVars, urlVars, chatVars, summaryVars, countVars, backendVars, toastVars>>

\* handleOpenSubmit up to the await
HandleOpenSubmit ==
    /\ ~hasError
    /\ CardShown /\ HasCurrentQuestion /\ ~OptionsShown(CurrentQuestion)
    /\ ~showResult
    /\ ~OpenSubmitDisabled
    /\ ~(Trim(openAnswer) = <<>> \/ grading)
    /\ grading' = TRUE
    /\ gradeRequest' = Some([ question |-> CurrentQuestion.question,
                              correct_answer |-> CurrentQuestion.correct,
                              user_answer |-> openAnswer,
                              difficulty |-> CurrentQuestion.difficulty ])
    /\ gradeSettled' = "none"
    /\ UNCHANGED <<questions, gameLoading, gameError, currentQ, selectedAnswer, showResult,
                   isCorrect, openAnswer, gradeFeedback, score, xp, gameComplete,
                   questionsInFlight>>
    /\ UNCHANGED <<ctxVars, urlVars, chatVars, summaryVars, countVars, backendVars, toastVars>>

\* GradeResolvedWith adding the question's MCQ points instead of xp_earned
GradeResolvedWith_McqPoints(result) ==
    /\ ~hasError
    /\ view = "game" /\ IsSome(gradeRequest)
    /\ gradeFeedback' = Some(result)
    /\ showResult' = TRUE
    /\ xp' = xp + Points(CurrentQuestion)
    /\ score' = IF result.score >= 2 THEN score + 1 ELSE score
    /\ grading' = FALSE
    /\ gradeRequest' = None
    /\ gradeSettled' = "resolved"
    /\ UNCHANGED <<questions, gameLoading, gameError, currentQ, selectedAnswer, isCorrect,
                   openAnswer, gameComplete, questionsInFlight>>
    /\ UNCHANGED <<ctxVars, urlVars, chatVars, summaryVars, countVars>>

\* GradeResolvedWith counting every score above 0 as a point
GradeResolvedWith_AnyScore(result) ==
    /\ ~hasError
    /\ view = "game" /\ IsSome(gradeRequest)
    /\ gradeFeedback' = Some(result)
    /\ showResult' = TRUE
    /\ xp' = xp + (IF IsSome(result.xp_earned) THEN Get(result.xp_earned) ELSE 0)
    /\ score' = IF result.score >= 1 THEN score + 1 ELSE score
    /\ grading' = FALSE
    /\ gradeRequest' = None
    /\ gradeSettled' = "resolved"
    /\ UNCHANGED <<questions, gameLoading, gameError, currentQ, selectedAnswer, isCorrect,
                   openAnswer, gameComplete, questionsInFlight>>
    /\ UNCHANGED <<ctxVars, urlVars, chatVars, summaryVars, countVars>>

\* handleOpenSubmit after gradeAnswer resolved with result
GradeResolvedWith(result) ==
    /\ ~hasError
    /\ view = "game" /\ IsSome(gradeRequest)
    /\ gradeFeedback' = Some(result)
    /\ showResult' = TRUE
    /\ xp' = xp + (IF IsSome(result.xp_earned) THEN Get(result.xp_earned) ELSE 0)
    /\ score' = IF result.score >= 2 THEN score + 1 ELSE score
    /\ grading' = FALSE
    /\ gradeRequest' = None
    /\ gradeSettled' = "resolved"
    /\ UNCHANGED <<questions, gameLoading, gameError, currentQ, selectedAnswer, isCorrect,
                   openAnswer, gameComplete, questionsInFlight>>
    /\ UNCHANGED <<ctxVars, urlVars, chatVars, summaryVars, countVars>>

\* handleOpenSubmit's catch block
GradeRejectedWith(err) ==
    /\ ~hasError
    /\ view = "game" /\ IsSome(gradeRequest)
    /\ gradeFeedback' = Some([score |-> 0, feedback |-> "Error grading answer.",
                              xp_earned |-> Some(0)])
    /\ showResult' = TRUE
    /\ grading' = FALSE
    /\ gradeRequest' = None
    /\ gradeSettled' = "rejected"
    /\ UNCHANGED <<questions, gameLoading, gameError, currentQ, selectedAnswer, isCorrect,
                   openAnswer, score, xp, gameComplete, questionsInFlight>>
    /\ UNCHANGED <<ctxVars, urlVars, chatVars, summaryVars, countVars>>

GradeResolved ==
    /\ \E result \in GradePayloads : GradeResolvedWith(result)
    /\ UNCHANGED <<backendVars, toastVars>>

GradeRejected ==
    /\ \E err \in RequestErrors : GradeRejectedWith(err)
    /\ UNCHANGED <<backendVars, toastVars>>

\* HandleNext dropping the answered question from the list
HandleNext_DropsAnswered ==
    /\ ~hasError
    /\ CardShown /\ HasCurrentQuestion
    /\ showResult
    /\ IF Len(questions) <= 1
       THEN /\ gameComplete' = TRUE
            /\ UNCHANGED <<questions, selectedAnswer, showResult, isCorrect, openAnswer,
                           gradeFeedback>>
       ELSE /\ questions' = Tail(questions)
            /\ selectedAnswer' = None
            /\ showResult' = FALSE
            /\ isCorrect' = FALSE
            /\ openAnswer' = <<>>
            /\ gradeFeedback' = None
            /\ UNCHANGED gameComplete
    /\ UNCHANGED <<currentQ, gameLoading, gameError, grading, score, xp,
                   questionsInFlight, gradeRequest, gradeSettled>>
    /\ UNCHANGED <<ctxVars, urlVars, chatVars, summaryVars, countVars, backendVars, toastVars>>

\* HandleNext moving on by two questions
HandleNext_SkipsOne ==
    /\ ~hasError
    /\ CardShown /\ HasCurrentQuestion
    /\ showResult
    /\ IF currentQ + 1 >= Len(questions)
       THEN /\ gameComplete' = TRUE
            /\ UNCHANGED <<currentQ, selectedAnswer, showResult, isCorrect, openAnswer,
                           gradeFeedback>>
       ELSE /\ currentQ' = currentQ + 2
            /\ selectedAnswer' = None
            /\ showResult' = FALSE
            /\ isCorrect' = FALSE
            /\ openAnswer' = <<>>
            /\ gradeFeedback' = None
            /\ UNCHANGED gameComplete
    /\ UNCHANGED <<questions, gameLoading, gameError, grading, score, xp,
                   questionsInFlight, gradeRequest, gradeSettled>>
    /\ UNCHANGED <<ctxVars, urlVars, chatVars, summaryVars, countVars, backendVars, toastVars>>

\* handleNext, from the button under the shown result
HandleNext ==
    /\ ~hasError
    /\ CardShown /\ HasCurrentQuestion
    /\ showResult
    /\ IF currentQ + 1 >= Len(questions)
       THEN /\ gameComplete' = TRUE
            /\ UNCHANGED <<currentQ, selectedAnswer, showResult, isCorrect, openAnswer,
                           gradeFeedback>>
       ELSE /\ currentQ' = currentQ + 1
            /\ selectedAnswer' = None
            /\ showResult' = FALSE
            /\ isCorrect' = FALSE
            /\ openAnswer' = <<>>
            /\ gradeFeedback' = None
            /\ UNCHANGED gameComplete
    /\ UNCHANGED <<questions, gameLoading, gameError, grading, score, xp,
                   questionsInFlight, gradeRequest, gradeSettled>>
    /\ UNCHANGED <<ctxVars, urlVars, chatVars, summaryVars, countVars, backendVars, toastVars>>

---------------------------------------------------------------------------
(* The client against any response the transport can deliver *)

Next ==
    \/ SetUrl
    \/ HandleSubmit
    \/ LoadingTick
    \/ ProcessResolved
    \/ ProcessRejected
    \/ ReadyTimerFires
    \/ BackToSearch
    \/ StartChat
    \/ StartSummary
    \/ StartGame
    \/ OnBack
    \/ OnGoHome
    \/ HandleRetry
    \/ SetInput
    \/ HandleSend
    \/ ChatResolved
    \/ ChatRejected
    \/ SummaryResolved
    \/ SummaryRejected
    \/ QuestionsResolved
    \/ QuestionsRejected
    \/ HandleMCQSelect
    \/ SetOpenAnswer
    \/ HandleOpenSubmit
    \/ GradeResolved
    \/ GradeRejected
    \/ HandleNext

Spec == Init /\ [][Next]_vars

\* Every request carries a timeout (60 s on the api client, 5 min on the process
\* request), so its promise settles and the handler's continuation runs; the
\* 500 ms timer of handleSubmit fires.
ProcessSettles == ProcessResolved \/ ProcessRejected
ChatSettles == ChatResolved \/ ChatRejected
SummarySettles == SummaryResolved \/ SummaryRejected
QuestionsSettle == QuestionsResolved \/ QuestionsRejected
GradeSettles == GradeResolved \/ GradeRejected

Fairness ==
    /\ WF_vars(ProcessSettles)
    /\ WF_vars(ReadyTimerFires)
    /\ WF_vars(ChatSettles)
    /\ WF_vars(SummarySettles)
    /\ WF_vars(QuestionsSettle)
    /\ WF_vars(GradeSettles)

\* a short session: one question asked per visit of the chat view, a quiz of
\* at most one question, one visit of the game view per loaded video
Short ==
    /\ Len(messages) <= 3
    /\ Len(questions) <= 1
    /\ questionsCalls <= 1

\* the steps of the client within short sessions
LiveNext ==
    \/ SetUrl /\ Short'
    \/ HandleSubmit /\ Short'
    \/ LoadingTick /\ Short'
    \/ ProcessResolved /\ Short'
    \/ ProcessRejected /\ Short'
    \/ ReadyTimerFires /\ Short'
    \/ BackToSearch /\ Short'
    \/ StartChat /\ Short'
    \/ StartSummary /\ Short'
    \/ StartGame /\ Short'
    \/ OnBack /\ Short'
    \/ OnGoHome /\ Short'
    \/ HandleRetry /\ Short'
    \/ SetInput /\ Short'
    \/ HandleSend /\ Short'
    \/ ChatResolved /\ Short'
    \/ ChatRejected /\ Short'
    \/ SummaryResolved /\ Short'
    \/ SummaryRejected /\ Short'
    \/ QuestionsResolved /\ Short'
    \/ QuestionsRejected /\ Short'
    \/ HandleMCQSelect /\ Short'
    \/ SetOpenAnswer /\ Short'
    \/ HandleOpenSubmit /\ Short'
    \/ GradeResolved /\ Short'
    \/ GradeRejected /\ Short'
    \/ HandleNext /\ Short'

\* the client in short sessions, with its requests settling
LiveSpec == Init /\ [][LiveNext]_vars /\ Fairness

---------------------------------------------------------------------------
(* The backend behind the HTTP surface, as its contract describes it:      *)
(* processing runs serialised per video id, summary and quiz generation    *)
(* that require a ready video and validate what the model produced.        *)

clientVars == <<ctxVars, urlVars, chatVars, summaryVars, gameVars, countVars>>

\* generation attempts before GenerationFailed
MaxAttempts == 2
\* the `count` of generate(video_id, count)
QuizCount == 2

\* the stable video id a URL names
VideoOf(u) == IF Trim(u) = <<"u">> THEN "v1" ELSE "v2"

\* the id of the app's /video/process request (the URL field is disabled
\* while the request is in flight)
AppVideo == VideoOf(url)

\* an error response: a distinguishable kind as the detail
BackendError(kind) ==
    [ code |-> "ERR_BAD_RESPONSE", response |-> Some([status |-> 500, detail |-> Some(kind)]),
      request |-> TRUE, message |-> kind ]

\* axios gave up after its timeout
TimeoutError ==
    [code |-> "ECONNABORTED", response |-> None, request |-> TRUE, message |-> "timeout"]

AppRequestWaiting == processInFlight > 0 /\ ~appRunning

NoRunFor(v) == running[v] = 0

\* another client posts /video/process for some id
OtherClientSubmits ==
    /\ \E v \in Videos :
         /\ v \notin otherRequests
         /\ otherRequests' = otherRequests \cup {v}
    /\ UNCHANGED <<videoStatus, running, appRunning, quizAttempts, fastPathMissed, clientVars, coreVars, toastVars>>

\* a processing attempt for the app's request starts once no run for the id
\* is in progress
ServerStartsAppRun ==
    /\ AppRequestWaiting
    /\ NoRunFor(AppVideo)
    /\ running' = [running EXCEPT ![AppVideo] = @ + 1]
    /\ appRunning' = TRUE
    /\ videoStatus' = [videoStatus EXCEPT ![AppVideo] = "pending"]
    /\ UNCHANGED <<otherRequests, quizAttempts, fastPathMissed, clientVars, coreVars, toastVars>>

ServerStartsOtherRun ==
    /\ \E v \in otherRequests :
         /\ NoRunFor(v)
         /\ running' = [running EXCEPT ![v] = @ + 1]
         /\ otherRequests' = otherRequests \ {v}
         /\ videoStatus' = [videoStatus EXCEPT ![v] = "pending"]
    /\ UNCHANGED <<appRunning, quizAttempts, fastPathMissed, clientVars, coreVars, toastVars>>

\* pending --(ingest success)--> ready, the VideoRecord returned to the app
ServerFinishesAppRun ==
    /\ appRunning
    /\ running' = [running EXCEPT ![AppVideo] = @ - 1]
    /\ appRunning' = FALSE
    /\ videoStatus' = [videoStatus EXCEPT ![AppVideo] = "ready"]
    /\ ProcessResolvedWith([video_id |-> AppVideo, status |-> "ready"])
    /\ UNCHANGED <<otherRequests, quizAttempts, fastPathMissed, coreVars, toastVars>>

\* pending --(ingest failure)--> failed, the error returned to the app
ServerFailsAppRun ==
    /\ appRunning
    /\ running' = [running EXCEPT ![AppVideo] = @ - 1]
    /\ appRunning' = FALSE
    /\ videoStatus' = [videoStatus EXCEPT ![AppVideo] = "failed"]
    /\ ProcessRejectedWith(BackendError("NoTranscript"))
    /\ UNCHANGED <<otherRequests, quizAttempts, fastPathMissed, coreVars, toastVars>>

\* a run that serves no request of the app ends
ServerEndsOtherRun ==
    /\ \E v \in Videos, outcome \in {"ready", "failed"} :
         /\ running[v] > (IF appRunning /\ v = AppVideo THEN 1 ELSE 0)
         /\ running' = [running EXCEPT ![v] = @ - 1]
         /\ videoStatus' = [videoStatus EXCEPT ![v] = outcome]
    /\ UNCHANGED <<appRunning, otherRequests, quizAttempts, fastPathMissed, clientVars, coreVars, toastVars>>

\* the app's request times out at the client; the backend goes on with it
ProcessTimesOut ==
    /\ processInFlight > 0
    /\ ProcessRejectedWith(TimeoutError)
    /\ appRunning' = FALSE
    /\ otherRequests' = IF appRunning THEN otherRequests ELSE otherRequests \cup {AppVideo}
    /\ UNCHANGED <<videoStatus, running, quizAttempts, fastPathMissed, coreVars, toastVars>>

\* the id the mounted view requests summary and questions for
RequestedVideo == Get(videoData).video_id

\* summarize(video_id): an empty overview is a generation failure, empty
\* lists are valid
ValidSummary(raw) == IsSome(raw.overview) /\ Get(raw.overview) # ""

\* GET /video/{id}/summary
ServerAnswersSummary ==
    /\ view = "summary" /\ summaryInFlight
    /\ IF videoStatus[RequestedVideo] # "ready"
       THEN SummaryRejectedWith(BackendError("IndexNotFound"))
       ELSE \E raw \in SummaryPayloads :
              IF ValidSummary(raw)
              THEN SummaryResolvedWith(raw)
              ELSE SummaryRejectedWith(BackendError("GenerationFailed"))
    /\ UNCHANGED <<backendVars, toastVars>>

\* the generator's consistency check of one question: an MCQ's correct label
\* matches exactly one option by letter, an open question has its reference
Validated(q) ==
    IF q.type = "mcq"
    THEN /\ IsSome(q.options) /\ IsSome(q.correct)
         /\ Len(Get(q.correct)) > 0
         /\ LET label == ToUpperCase(CharAt0(Get(q.correct)))
                opts == Get(q.options)
            IN  Cardinality({j \in 1..Len(opts) : ToUpperCase(CharAt0(opts[j])) = label}) = 1
    ELSE /\ q.type = "open"
         /\ IsSome(q.correct) /\ Len(Get(q.correct)) > 0

ValidQuiz(l) == Len(l) = QuizCount /\ \A i \in 1..Len(l) : Validated(l[i])

OpenEasy ==
    [ type |-> "open", question |-> "Q6", difficulty |-> "easy",
      options |-> None, correct |-> Some(<<"s">>) ]

\* the questions the generation model draws from: well-formed and malformed
\* MCQs, open questions of two difficulties
GeneratorPool == {McqLower, McqTwoMatch, McqNoCorrect, OpenHard, OpenEasy}

\* what one generation attempt may produce
RawQuizOutputs == SeqsUpTo(GeneratorPool, MaxQuestions)

\* GET /game/{id}/questions: generate(video_id, count), one attempt per step
ServerAnswersQuestions ==
    /\ view = "game" /\ questionsInFlight
    /\ IF videoStatus[RequestedVideo] # "ready"
       THEN /\ QuestionsRejectedWith(BackendError("IndexNotFound"))
            /\ quizAttempts' = 0
       ELSE \E raw \in RawQuizOutputs :
              IF ValidQuiz(raw)
              THEN /\ QuestionsResolvedWith([questions |-> Some(raw)])
                   /\ quizAttempts' = 0
              ELSE IF quizAttempts + 1 < MaxAttempts
                   THEN /\ quizAttempts' = quizAttempts + 1
                        /\ UNCHANGED clientVars
                   ELSE /\ QuestionsRejectedWith(BackendError("GenerationFailed"))
                        /\ quizAttempts' = 0
    /\ UNCHANGED <<videoStatus, running, appRunning, otherRequests, fastPathMissed, coreVars, toastVars>>

Difficulties == {"easy", "medium", "hard"}

\* the rubric's scores
Rubric == 0..3

\* base-XP(difficulty)
BaseXp(d) == IF d = "easy" THEN 10 ELSE 20

\* XP = base-XP(difficulty) scaled by score/3, rounded down
XpEarned(d, sc) == (BaseXp(d) * sc) \div 3

\* a user answer below the minimal non-empty-content threshold
BelowThreshold(a) == Trim(a) = <<>>

\* grade(question, reference, user_answer, difficulty); judged is what the
\* evaluation step finds, which the fast path does not run
Grade(req, judged) ==
    IF BelowThreshold(req.user_answer)
    THEN [score |-> 0, xp_earned |-> 0, evaluated |-> FALSE]
    ELSE [score |-> judged, xp_earned |-> XpEarned(req.difficulty, judged),
          evaluated |-> TRUE]

\* the GradingResult of POST /game/grade
GradingResult(g) ==
    [score |-> g.score, feedback |-> "feedback", xp_earned |-> Some(g.xp_earned)]

\* the grading g of answer a ran the evaluation, or scored above 0, although
\* a is below the threshold
MissesFastPath(a, g) == BelowThreshold(a) /\ (g.evaluated \/ g.score # 0)

\* POST /game/grade of the app's request
ServerGrades ==
    /\ view = "game" /\ IsSome(gradeRequest)
    /\ \E judged \in Rubric :
         LET g == Grade(Get(gradeRequest), judged)
         IN  /\ GradeResolvedWith(GradingResult(g))
             /\ fastPathMissed' =
                   (fastPathMissed \/ MissesFastPath(Get(gradeRequest).user_answer, g))
    /\ UNCHANGED <<videoStatus, running, appRunning, otherRequests, quizAttempts, coreVars, toastVars>>

\* POST /game/grade of another client, with any answer; it touches nothing of
\* the app, and is taken while the app shows its home view
OtherClientGrades ==
    /\ view = "home"
    /\ \E a \in OpenAnswers, d \in Difficulties, judged \in Rubric :
         LET g == Grade([question |-> "Q", correct_answer |-> Some(<<"r">>),
                         user_answer |-> a, difficulty |-> d], judged)
         IN  fastPathMissed' = (fastPathMissed \/ MissesFastPath(a, g))
    /\ UNCHANGED <<videoStatus, running, appRunning, otherRequests, quizAttempts, clientVars, coreVars, toastVars>>

\* The client against this backend; chat answers stay whatever the transport
\* delivers, a grade request may fail as the transport lets it
SystemNext ==
    \/ SetUrl
    \/ HandleSubmit
    \/ LoadingTick
    \/ ReadyTimerFires
    \/ BackToSearch
    \/ StartChat
    \/ StartSummary
    \/ StartGame
    \/ OnBack
    \/ OnGoHome
    \/ HandleMCQSelect
    \/ SetOpenAnswer
    \/ HandleOpenSubmit
    \/ ServerGrades
    \/ OtherClientGrades
    \/ GradeRejected
    \/ HandleNext
    \/ OtherClientSubmits
    \/ ServerStartsAppRun
    \/ ServerStartsOtherRun
    \/ ServerFinishesAppRun
    \/ ServerFailsAppRun
    \/ ServerEndsOtherRun
    \/ ProcessTimesOut
    \/ ServerAnswersSummary
    \/ ServerAnswersQuestions

SystemSpec == Init /\ [][SystemNext]_vars

---------------------------------------------------------------------------
(* The retrieval core, as its contract describes it: ChunkSplitter,         *)
(* EmbeddingIndexer and Retriever.                                         *)

\* longest transcript, in segments
MaxSegments == 3
\* largest k of retrieve(video_id, query, k)
MaxK == 2
\* target chunk size, in characters
ChunkSize == 2
\* segments adjacent chunks share
Overlap == 1

Max(a, b) == IF a >= b THEN a ELSE b

\* start times of the segments of a transcript, in seconds: non-decreasing,
\* two segments may start together
SegmentStart(i) == IF i = 1 THEN 0 ELSE IF i <= 3 THEN 30 ELSE 30 * (i - 1)

\* what the segments say: A A B B A A ... in one kind of video,
\* A B A B ... in the other
SegmentText(p, i) ==
    IF p = 1
    THEN IF ((i - 1) \div 2) % 2 = 0 THEN <<"A">> ELSE <<"B">>
    ELSE IF i % 2 = 1 THEN <<"A">> ELSE <<"B">>

\* ordered transcripts of up to MaxSegments timestamped segments
Transcripts ==
    { [i \in 1..n |-> [start |-> SegmentStart(i), text |-> SegmentText(p, i)]] :
        n \in 0..MaxSegments, p \in {1, 2} }

\* the text of segments i..j
RECURSIVE Concat(_, _, _)
Concat(t, i, j) == IF i > j THEN <<>> ELSE t[i].text \o Concat(t, i + 1, j)

\* the last segment of the window whose last segment so far is j and which
\* holds chars characters: segments are added up to the target size
RECURSIVE WindowEnd(_, _, _)
WindowEnd(t, j, chars) ==
    IF chars >= ChunkSize \/ j = Len(t)
    THEN j
    ELSE WindowEnd(t, j + 1, chars + Len(t[j + 1].text))

\* ChunkStart taking the time of the window's last segment
ChunkStart_OfLast(t, i, j) == t[j].start

\* the start timestamp recorded for the chunk of segments i..j
ChunkStart(t, i, j) == t[i].start

\* the chunks from segment i on, numbered from n
RECURSIVE SplitFrom(_, _, _)
SplitFrom(t, i, n) ==
    IF i > Len(t)
    THEN <<>>
    ELSE LET j == WindowEnd(t, i, Len(t[i].text))
             chunk == [seq |-> n, start |-> ChunkStart(t, i, j), text |-> Concat(t, i, j)]
         IN  IF j = Len(t)
             THEN <<chunk>>
             ELSE <<chunk>> \o SplitFrom(t, Max(i + 1, j + 1 - Overlap), n + 1)

\* ChunkSplitter
Split(t) == SplitFrom(t, 1, 0)

\* the TranscriptChunks of video v: the split chunks with their owner
Chunks(v, t) ==
    [k \in 1..Len(Split(t)) |->
        [video |-> v, seq |-> Split(t)[k].seq, start |-> Split(t)[k].start,
         text |-> Split(t)[k].text]]

\* processing of v starts: the transcript is split, a new index is built
\* aside from the one readers see (the indexer builds one index at a time)
IndexStarts ==
    /\ \E v \in Videos, t \in Transcripts :
         /\ \A w \in Videos : staged[w] = None
         /\ staged' = [staged EXCEPT ![v] =
                         Some([transcript |-> t, target |-> Chunks(v, t), built |-> <<>>])]
    /\ observed' = None
    /\ UNCHANGED <<index, indexed, clientVars, serviceVars, toastVars>>

\* an empty chunk sequence: the video is not eligible (NoTranscript)
IndexRejects ==
    /\ \E v \in Videos :
         /\ IsSome(staged[v]) /\ Get(staged[v]).target = <<>>
         /\ staged' = [staged EXCEPT ![v] = None]
    /\ observed' = None
    /\ UNCHANGED <<index, indexed, clientVars, serviceVars, toastVars>>

\* StageChunk adding the chunk to the index readers see as well
StageChunk_InPlace(v) ==
    /\ IsSome(staged[v])
    /\ Len(Get(staged[v]).built) < Len(Get(staged[v]).target)
    /\ LET b == Get(staged[v])
           next == Append(b.built, b.target[Len(b.built) + 1])
       IN  /\ staged' = [staged EXCEPT ![v] = Some([b EXCEPT !.built = next])]
           /\ index' = [index EXCEPT ![v] = Some(next)]
    /\ observed' = None
    /\ UNCHANGED <<indexed, clientVars, serviceVars, toastVars>>

\* the next chunk is embedded and added to the index being built
StageChunk(v) ==
    /\ IsSome(staged[v])
    /\ Len(Get(staged[v]).built) < Len(Get(staged[v]).target)
    /\ LET b == Get(staged[v])
           next == Append(b.built, b.target[Len(b.built) + 1])
       IN  staged' = [staged EXCEPT ![v] = Some([b EXCEPT !.built = next])]
    /\ observed' = None
    /\ UNCHANGED <<index, indexed, clientVars, serviceVars, toastVars>>

IndexBuilds == \E v \in Videos : StageChunk(v)

\* index(video_id, chunks) completes: the registry entry is replaced as a whole
IndexCommits ==
    /\ \E v \in Videos :
         /\ IsSome(staged[v])
         /\ Get(staged[v]).target # <<>>
         /\ Get(staged[v]).built = Get(staged[v]).target
         /\ index' = [index EXCEPT ![v] = Some(Get(staged[v]).built)]
         /\ indexed' = [indexed EXCEPT ![v] = Some(Get(staged[v]).target)]
         /\ staged' = [staged EXCEPT ![v] = None]
    /\ observed' = None
    /\ UNCHANGED <<clientVars, serviceVars, toastVars>>

\* a summary or quiz read of the video's whole chunk set
ReadsChunks ==
    /\ \E v \in Videos :
         observed' = Some([op |-> "read", video |-> v, chunks |-> index[v]])
    /\ UNCHANGED <<index, staged, indexed, clientVars, serviceVars, toastVars>>

Queries == {<<"A">>, <<"B">>}

\* the embedding of a text: the characters it holds
Embed(text) == {text[i] : i \in 1..Len(text)}

\* the similarity of a chunk text and a query, by their embeddings
Similarity(text, q) == Cardinality(Embed(text) \cap Embed(q))

\* every chunk the store holds
StoredChunks(store) ==
    UNION { {Get(store[v])[i] : i \in 1..Len(Get(store[v]))} :
              v \in {w \in Videos : IsSome(store[w])} }

\* Candidates with no filter on the owner
Candidates_AnyOwner(store, v) == StoredChunks(store)

\* the chunks similarity is computed against: those of that video only
Candidates(store, v) == {c \in StoredChunks(store) : c.video = v}

\* Before with the later chunk winning a tie
Before_LatestWins(a, b, q) ==
    \/ Similarity(a.text, q) > Similarity(b.text, q)
    \/ Similarity(a.text, q) = Similarity(b.text, q) /\ a.seq > b.seq

\* a ranks before b: higher score, or equal score and earlier in the video
Before(a, b, q) ==
    \/ Similarity(a.text, q) > Similarity(b.text, q)
    \/ Similarity(a.text, q) = Similarity(b.text, q) /\ a.seq < b.seq

\* the chunks of S, best first
RECURSIVE Ranked(_, _)
Ranked(S, q) ==
    IF S = {}
    THEN <<>>
    ELSE LET best == CHOOSE c \in S : \A d \in S : ~Before(d, c, q)
         IN  <<best>> \o Ranked(S \ {best}, q)

\* retrieve(video_id, query, k) over a store: None is IndexNotFound
RetrieveFrom(store, v, q, k) ==
    IF store[v] = None
    THEN None
    ELSE LET r == Ranked(Candidates(store, v), q)
         IN  Some([i \in 1..Min(k, Len(r)) |->
                     [chunk |-> r[i], score |-> Similarity(r[i].text, q)]])

\* a chat read: retrieve over the index registry
Retrieves ==
    /\ \E v \in Videos, q \in Queries, k \in 1..MaxK :
         observed' = Some([op |-> "retrieve", video |-> v, query |-> q, k |-> k,
                           outcome |-> RetrieveFrom(index, v, q, k)])
    /\ UNCHANGED <<index, staged, indexed, clientVars, serviceVars, toastVars>>

CoreNext ==
    \/ IndexStarts
    \/ IndexRejects
    \/ IndexBuilds
    \/ IndexCommits
    \/ ReadsChunks
    \/ Retrieves

CoreSpec == Init /\ [][CoreNext]_vars

---------------------------------------------------------------------------
(* ToastProvider (components/Toast), called by any consumer of useToast *)

\* toasts shown at a time
MaxToasts == 3
\* milliseconds the clock advances
MaxClock == 2

\* Number.prototype.toString of a non-negative integer
RECURSIVE NumberToString(_)
NumberToString(n) ==
    LET digit(d) == <<"0", "1", "2", "3", "4", "5", "6", "7", "8", "9">>[d + 1]
    IN  IF n < 10 THEN <<digit(n)>> ELSE NumberToString(n \div 10) \o <<digit(n % 10)>>

\* prev.filter(t => t.id !== id)
RECURSIVE RemoveToast(_, _)
RemoveToast(list, id) ==
    IF list = <<>>
    THEN <<>>
    ELSE IF Head(list).id = id
         THEN RemoveToast(Tail(list), id)
         ELSE <<Head(list)>> \o RemoveToast(Tail(list), id)

\* addToast(message, type, duration)
AddToast ==
    /\ Len(toasts) < MaxToasts
    /\ \E type \in {"info", "error"}, duration \in {0, 3000} :
         LET id == NumberToString(now)
         IN  /\ toasts' = Append(toasts, [id |-> id, message |-> "m", type |-> type])
             /\ toastTimers' = IF duration > 0 THEN toastTimers \cup {id} ELSE toastTimers
    /\ UNCHANGED <<now, clientVars, backendVars>>

\* a millisecond passes
ClockTicks ==
    /\ now < MaxClock
    /\ now' = now + 1
    /\ UNCHANGED <<toasts, toastTimers, clientVars, backendVars>>

\* the close button of a toast: onClose = () => removeToast(toast.id)
CloseToast ==
    /\ \E i \in 1..Len(toasts) : toasts' = RemoveToast(toasts, toasts[i].id)
    /\ UNCHANGED <<now, toastTimers, clientVars, backendVars>>

\* the duration timer of addToast: removeToast(id)
ToastTimerFires ==
    /\ \E id \in toastTimers :
         /\ toasts' = RemoveToast(toasts, id)
         /\ toastTimers' = toastTimers \ {id}
    /\ UNCHANGED <<now, clientVars, backendVars>>

ToastNext ==
    \/ AddToast
    \/ ClockTicks
    \/ CloseToast
    \/ ToastTimerFires

ToastSpec == Init /\ [][ToastNext]_vars

---------------------------------------------------------------------------
(* Properties of the client *)

\* C1: while a chat request is in flight its history has at most 6 turns and is,
\* in order, the last min(6, n) of the n messages that preceded the new user
\* message, each reduced to role and content
C1_HistoryIsLastSix ==
    IsSome(chatRequest) =>
        LET h == Get(chatRequest).history
            n == Len(messages) - 1
            k == Min(6, n)
        IN  /\ Len(h) = k
            /\ Len(h) <= 6
            /\ messages[n + 1].role = "user"
            /\ messages[n + 1].content = Get(chatRequest).message
            /\ \A i \in 1..k :
                 h[i] = [role |-> messages[n - k + i].role,
                         content |-> messages[n - k + i].content]

\* a request whose history dropped an older turn, and reduced a turn with sources
C1_Witness ==
    /\ IsSome(chatRequest)
    /\ Len(messages) - 1 > 6
    /\ Len(Get(chatRequest).history) = 6
    /\ \E i \in 2..(Len(messages) - 1) : IsSome(messages[i].sources)

\* C2: the selected option was judged correct exactly when its first character
\* and the first character of `correct` are equal after upper-casing
C2_LeadingLetterJudgement ==
    (view = "game" /\ IsSome(selectedAnswer)) =>
        LET opt == Get(selectedAnswer)
            c == CurrentQuestion.correct
        IN  isCorrect <=>
              /\ IsSome(c)
              /\ \/ Len(opt) = 0 /\ Len(Get(c)) = 0
                 \/ /\ Len(opt) > 0 /\ Len(Get(c)) > 0
                    /\ UpperChar(opt[1]) = UpperChar(Get(c)[1])

\* an option judged correct that differs from `correct` in case and in its tail
C2_Witness ==
    /\ view = "game" /\ IsSome(selectedAnswer) /\ isCorrect
    /\ Get(selectedAnswer)[1] # Get(CurrentQuestion.correct)[1]
    /\ Get(selectedAnswer) # Get(CurrentQuestion.correct)

\* The state of the processing attempt as URLInput and the context hold it
AttemptPending == urlLoading
AttemptFailed == urlError # "null"
AttemptReady == metadataDeliveries > 0

\* C5: an attempt starts pending, ends in exactly one of ready (metadata
\* delivered once) and failed (error reported, no metadata), keeps its outcome,
\* and a later request starts a new attempt from pending
C5_AttemptLifecycle ==
    /\ [](/\ metadataDeliveries <= 1
          /\ ~(AttemptPending /\ AttemptFailed)
          /\ ~(AttemptPending /\ AttemptReady)
          /\ ~(AttemptFailed /\ AttemptReady)
          /\ AttemptFailed => videoData = None
          /\ AttemptReady <=> IsSome(videoData)
          /\ AttemptPending <=> (processInFlight = 1 \/ IsSome(readyTimer))
          /\ processInFlight \in {0, 1})
    /\ [][/\ (processInFlight' > processInFlight) =>
                (AttemptPending' /\ ~AttemptFailed' /\ ~AttemptReady' /\ view' = "processing")
          /\ AttemptFailed =>
                \/ urlError' = urlError /\ ~AttemptPending' /\ ~AttemptReady'
                \/ processInFlight' = 1 /\ AttemptPending' /\ ~AttemptFailed'
          /\ AttemptReady =>
                \/ AttemptReady' /\ videoData' = videoData /\ ~AttemptPending' /\ ~AttemptFailed'
                \/ view' = "home" /\ videoData' = None /\ ~AttemptPending'
          /\ AttemptPending =>
                \/ AttemptPending'
                \/ AttemptFailed' /\ ~AttemptReady'
                \/ AttemptReady' /\ ~AttemptFailed' /\ videoData' = readyTimer]_vars

\* the metadata of a successful attempt delivered, the dashboard shown
C5_Witness ==
    view = "video" /\ metadataDeliveries = 1 /\ IsSome(videoData)

\* C6 as claimed: a response with an empty or missing overview ends in the
\* error state with no summary; one with an overview and empty lists is shown
C6_EmptyOverviewIsFailure ==
    (IsSome(summarySettled) /\ Get(summarySettled).ok) =>
        LET data == Get(summarySettled).data
        IN  IF IsSome(data.overview) /\ Get(data.overview) # ""
            THEN SummaryShown = "summary" /\ IsSome(summaryData)
            ELSE SummaryShown = "error" /\ summaryData = None

\* C7 as claimed: a failed grade request leaves no GradingResult of score 0 and
\* 0 XP, a failed chat request leaves no assistant turn in the conversation
C7_FailuresAreNotDefaults ==
    /\ (view = "game" /\ gradeSettled = "rejected" /\ showResult) =>
          ~(/\ IsSome(gradeFeedback)
            /\ Get(gradeFeedback).score = 0
            /\ Get(gradeFeedback).xp_earned = Some(0))
    /\ (view = "chat" /\ chatSettled = "rejected") =>
          messages[Len(messages)].role # "assistant"

\* C10 as claimed: once a question list is loaded for the video no further
\* getQuestions request is issued for it
C10_FetchedOncePerVideo ==
    [][(quizLoaded /\ videoData' = videoData) => questionsCalls' = questionsCalls]_vars

\* C10 amended: while GameView stays mounted with its list loaded, no step
\* changes the list or issues a getQuestions request
C10_ListFixedWhileMounted ==
    [][(view = "game" /\ view' = "game" /\ ~gameLoading) =>
          (questions' = questions /\ questionsCalls' = questionsCalls)]_vars

\* a quiz in play on its second question after an answer and a next
C10_Witness ==
    /\ view = "game" /\ ~gameLoading /\ currentQ = 1 /\ showResult
    /\ Len(questions) = 2 /\ questions[1] # questions[2]

\* C11: selecting an MCQ option adds 10 XP when it is judged correct and the
\* question is easy, 20 XP when it is judged correct and the question is medium
\* or hard, and nothing when it is judged incorrect; so a correct hard answer
\* earns at least what a correct medium one earns, and that at least what a
\* correct easy one earns
C11_McqXp ==
    [][(view = "game" /\ selectedAnswer = None /\ IsSome(selectedAnswer')) =>
          LET d == CurrentQuestion.difficulty
              gain == xp' - xp
          IN  /\ d \in {"easy", "medium", "hard"}
              /\ (isCorrect' /\ d = "easy") => gain = 10
              /\ (isCorrect' /\ d = "medium") => gain = 20
              /\ (isCorrect' /\ d = "hard") => gain = 20
              /\ ~isCorrect' => gain = 0
              /\ gain \in {0, 10, 20}]_vars

\* an easy and then a medium question answered correctly
C11_Witness ==
    /\ view = "game" /\ currentQ = 1 /\ showResult /\ isCorrect
    /\ questions[1].difficulty = "easy" /\ CurrentQuestion.difficulty = "medium"
    /\ xp = 30

---------------------------------------------------------------------------
(* Properties of the client against the backend *)

\* C3: every MCQ of a quiz the client loaded has exactly one option whose
\* leading letter equals that of `correct` without regard to case; that option
\* alone is judged correct when selected and alone is marked correct when the
\* result is shown
C3_ExactlyOneCorrectOption ==
    (view = "game" /\ ~gameLoading /\ gameError = "null") =>
        \A i \in 1..Len(questions) :
            LET q == questions[i]
            IN  q.type = "mcq" =>
                  /\ IsSome(q.options) /\ IsSome(q.correct)
                  /\ LET opts == Get(q.options)
                         c == Get(q.correct)
                         Matching == {j \in 1..Len(opts) :
                                        /\ Len(opts[j]) > 0 /\ Len(c) > 0
                                        /\ UpperChar(opts[j][1]) = UpperChar(c[1])}
                     IN  /\ Cardinality(Matching) = 1
                         /\ {j \in 1..Len(opts) : McqCorrect(opts[j], q)} = Matching
                         /\ {j \in 1..Len(opts) : OptionMarkedCorrect(opts[j], q)} = Matching

\* the result shown for an MCQ whose options and `correct` differ in case,
\* the selected option judged correct
C3_Witness ==
    /\ view = "game" /\ showResult /\ HasCurrentQuestion
    /\ CurrentQuestion = McqLower
    /\ IsSome(selectedAnswer) /\ isCorrect

\* C4: no two processing runs for one video id are in progress together, and
\* URLInput has at most one /video/process request in flight: while loading is
\* true no step starts another
C4_OneRunPerVideo ==
    /\ [](/\ processInFlight <= 1
          /\ \A v \in Videos : running[v] <= 1)
    /\ [][urlLoading => processInFlight' <= processInFlight]_vars

\* the app's request waits while a run for the same id is in progress
C4_Witness ==
    /\ AppRequestWaiting /\ urlLoading
    /\ running[AppVideo] = 1

\* C8: a summary or questions request answered while the video is not ready
\* ends in the error state with nothing loaded, the summary one with
\* IndexNotFound; after any failed getSummary the error is set, summaryData
\* is null and the error panel is what SummaryView shows
C8_NotReadyFails ==
    /\ []((view = "summary" /\ IsSome(summarySettled) /\ ~Get(summarySettled).ok) =>
            (summaryError # "null" /\ summaryData = None /\ SummaryShown = "error"))
    /\ [][/\ (/\ view = "summary" /\ view' = "summary"
               /\ summaryInFlight /\ ~summaryInFlight'
               /\ videoStatus[RequestedVideo] # "ready") =>
                  /\ IsSome(summarySettled') /\ ~Get(summarySettled').ok
                  /\ Get(summarySettled').err = BackendError("IndexNotFound")
                  /\ summaryError' # "null" /\ summaryData' = None
          /\ (/\ view = "game" /\ view' = "game"
               /\ questionsInFlight /\ ~questionsInFlight'
               /\ videoStatus[RequestedVideo] # "ready") =>
                  /\ gameError' # "null" /\ questions' = <<>>]_vars

\* SummaryView showing the error of a request made while the video is
\* processed again
C8_Witness ==
    /\ view = "summary" /\ IsSome(summarySettled)
    /\ ~Get(summarySettled).ok
    /\ Get(summarySettled).err = BackendError("IndexNotFound")
    /\ videoStatus[RequestedVideo] = "pending"
    /\ SummaryShown = "error"

\* C9: a questions request ends in the error state with no list, or with a
\* list of exactly QuizCount validated questions; no card is ever rendered
\* without a question
C9_FullQuizOrFailure ==
    /\ ~hasError
    /\ (view = "game" /\ ~gameLoading) =>
          \/ gameError # "null" /\ questions = <<>>
          \/ /\ gameError = "null"
             /\ Len(questions) = QuizCount
             /\ \A i \in 1..Len(questions) : Validated(questions[i])

\* a full quiz played to its last question
C9_Witness ==
    /\ view = "game" /\ ~gameLoading /\ gameError = "null"
    /\ Len(questions) = QuizCount /\ currentQ = QuizCount - 1 /\ showResult

\* C12: an open answer that is empty or only white space is never evaluated:
\* the grader scores it 0 on its fast path, no grade request is ever in flight
\* for such an answer, and while the answer field of an open card holds one
\* no step changes score, xp, showResult, grading or gradeFeedback
C12_BlankAnswerNotGraded ==
    /\ [](/\ ~fastPathMissed
          /\ IsSome(gradeRequest) => Trim(Get(gradeRequest).user_answer) # <<>>)
    /\ [][(/\ CardShown /\ HasCurrentQuestion /\ ~OptionsShown(CurrentQuestion)
            /\ ~showResult /\ gradeRequest = None
            /\ Trim(openAnswer) = <<>>
            /\ view' = "game") =>
              UNCHANGED <<score, xp, showResult, grading, gradeFeedback, gradeRequest>>]_vars

\* white space typed into the answer field of an open card, nothing graded
C12_Witness ==
    /\ CardShown /\ HasCurrentQuestion /\ ~OptionsShown(CurrentQuestion)
    /\ openAnswer = <<" ">>
    /\ ~showResult /\ ~grading /\ gradeRequest = None /\ gradeFeedback = None

\* C13: a graded open answer has a score in 0..3 and xp_earned equal to
\* base-XP(difficulty) * score / 3 rounded down (10 for easy, 20 otherwise):
\* 0 for score 0, the base for score 3, never above the base, non-decreasing in
\* the score; the step that receives it adds exactly xp_earned to xp
C13_XpFormula ==
    /\ [](/\ (view = "game" /\ gradeSettled = "resolved" /\ IsSome(gradeFeedback)) =>
                LET r == Get(gradeFeedback)
                    base == IF CurrentQuestion.difficulty = "easy" THEN 10 ELSE 20
                IN  /\ r.score \in 0..3
                    /\ IsSome(r.xp_earned)
                    /\ 3 * Get(r.xp_earned) <= base * r.score
                    /\ base * r.score < 3 * (Get(r.xp_earned) + 1)
                    /\ r.score = 0 => Get(r.xp_earned) = 0
                    /\ r.score = 3 => Get(r.xp_earned) = base
                    /\ Get(r.xp_earned) <= base
          /\ \A d \in Difficulties : \A s1, s2 \in 0..3 :
                s1 <= s2 => XpEarned(d, s1) <= XpEarned(d, s2))
    /\ [][(view' = "game" /\ IsSome(gradeRequest) /\ gradeRequest' = None
            /\ gradeSettled' = "resolved") =>
              /\ IsSome(gradeFeedback')
              /\ xp' = xp + Get(Get(gradeFeedback').xp_earned)]_vars

\* an easy open answer graded 2: 6 XP of the 10 added to the total
C13_Witness ==
    /\ view = "game" /\ gradeSettled = "resolved" /\ IsSome(gradeFeedback)
    /\ CurrentQuestion.difficulty = "easy"
    /\ Get(gradeFeedback).score = 2 /\ Get(gradeFeedback).xp_earned = Some(6)
    /\ currentQ = 0 /\ xp = 6

\* the questions of the list answered so far
Answered == currentQ + (IF showResult THEN 1 ELSE 0)

\* C22: a question is credited at most once: handleMCQSelect acts only while no
\* result is shown and adds at most one point and at most 20 XP; while the
\* result of a question stays shown, score, xp, selectedAnswer and isCorrect do
\* not change; so score is at most the number of questions answered, which is
\* at most the length of the list, and a quiz of MCQs alone has given at most
\* 20 XP per answered question
C22_CreditedOnce ==
    /\ [](view = "game" =>
            /\ score <= Answered
            /\ Answered <= Len(questions)
            /\ (showResult => HasCurrentQuestion)
            /\ (\A i \in 1..Len(questions) : OptionsShown(questions[i]))
                 => xp <= 20 * Answered)
    /\ [][(view = "game" /\ view' = "game" /\ selectedAnswer' # selectedAnswer
            /\ IsSome(selectedAnswer')) =>
              /\ ~showResult /\ showResult'
              /\ currentQ' = currentQ
              /\ score' - score \in {0, 1}
              /\ xp' - xp \in {0, 10, 20}]_vars
    /\ [][(view = "game" /\ view' = "game" /\ showResult /\ showResult'
            /\ currentQ' = currentQ) =>
              /\ score' = score
              /\ xp' = xp
              /\ selectedAnswer' = selectedAnswer
              /\ isCorrect' = isCorrect]_vars

\* both MCQs of a quiz answered correctly, the second result shown
C22_Witness ==
    /\ CardShown
    /\ Len(questions) = 2
    /\ currentQ = 1
    /\ showResult
    /\ OptionsShown(questions[1]) /\ OptionsShown(questions[2])
    /\ IsSome(selectedAnswer)
    /\ isCorrect
    /\ score = 2
    /\ xp >= 20

\* C23: whenever the question card is rendered (loading finished, no error,
\* game not complete) currentQ indexes a question of the loaded list
C23_CurrentQuestionDefined ==
    CardShown => (0 <= currentQ /\ currentQ < Len(questions))

\* C24: questions are played in order and none is skipped: currentQ changes
\* only while the current result is shown and no grading is in progress, by
\* exactly 1 and to a question of the list, with selectedAnswer, showResult,
\* isCorrect, openAnswer and gradeFeedback reset and score, xp and the list
\* unchanged; gameComplete is set only from the shown result of the last
\* question, so a completed game has every question answered
C24_PlayedInOrder ==
    /\ [][(view = "game" /\ view' = "game" /\ currentQ' # currentQ) =>
            /\ showResult /\ ~grading /\ ~gameComplete
            /\ currentQ' = currentQ + 1
            /\ currentQ' < Len(questions)
            /\ selectedAnswer' = None
            /\ ~showResult'
            /\ ~isCorrect'
            /\ openAnswer' = <<>>
            /\ gradeFeedback' = None
            /\ score' = score /\ xp' = xp /\ questions' = questions
            /\ ~gameComplete']_vars
    /\ [][(~gameComplete /\ gameComplete') =>
            /\ view = "game" /\ view' = "game"
            /\ showResult /\ showResult'
            /\ currentQ + 1 = Len(questions)
            /\ currentQ' = currentQ
            /\ score' = score /\ xp' = xp /\ questions' = questions]_vars
    /\ [][(view = "game" /\ view' = "game" /\ ~showResult /\ showResult') =>
            \/ IsSome(selectedAnswer') /\ selectedAnswer = None
            \/ IsSome(gradeFeedback') /\ gradeFeedback = None]_vars
    /\ [](gameComplete =>
            /\ view = "game"
            /\ Len(questions) >= 1
            /\ Answered = Len(questions))

\* a quiz of two questions played to its end
C24_Witness ==
    /\ view = "game"
    /\ gameComplete
    /\ Len(questions) = 2
    /\ currentQ = 1
    /\ showResult

\* C25: one grade request at a time, applied once to the question it was sent
\* for: grading is up exactly while a request is in flight; a request is sent
\* only when none is in flight and no result is shown, for the current question
\* and the answer typed; while it is in flight the current question does not
\* change; when it ends in the mounted view its result (or the error's) is
\* shown and grading is down
C25_OneGradeRequest ==
    /\ [](view = "game" => (grading <=> IsSome(gradeRequest)))
    /\ [](IsSome(gradeRequest) =>
            /\ CardShown /\ HasCurrentQuestion
            /\ ~showResult
            /\ Get(gradeRequest).question = CurrentQuestion.question
            /\ Get(gradeRequest).correct_answer = CurrentQuestion.correct
            /\ Get(gradeRequest).difficulty = CurrentQuestion.difficulty)
    /\ [][(gradeRequest' # gradeRequest /\ IsSome(gradeRequest')) =>
            /\ gradeRequest = None
            /\ ~grading /\ ~showResult /\ gradeFeedback = None
            /\ Get(gradeRequest').user_answer = openAnswer
            /\ currentQ' = currentQ]_vars
    /\ [][(IsSome(gradeRequest) /\ view' = "game") =>
            /\ currentQ' = currentQ
            /\ questions' = questions
            /\ (IsSome(gradeRequest') => gradeRequest' = gradeRequest)]_vars
    /\ [][(IsSome(gradeRequest) /\ gradeRequest' = None /\ view' = "game") =>
            /\ showResult'
            /\ IsSome(gradeFeedback')
            /\ ~grading'
            /\ gradeSettled' \in {"resolved", "rejected"}]_vars

\* the answer was cleared while its grading is in progress: the request in
\* flight is still the one of the answer submitted
C25_Witness ==
    /\ view = "game"
    /\ grading
    /\ IsSome(gradeRequest)
    /\ Get(gradeRequest).user_answer = <<"r">>
    /\ openAnswer = <<" ">>
    /\ currentQ = 1

\* C26: when a grade request ends with a response, the response is kept as the
\* feedback, xp grows by its xp_earned (by 0 when it has none), score grows by 1
\* exactly when its score is at least 2, the result is shown and grading is
\* down; when it ends with an error, score and xp stay, the result is shown and
\* grading is down
C26_GradeApplied ==
    /\ [][(IsSome(gradeRequest) /\ view' = "game" /\ gradeSettled' = "resolved") =>
            /\ IsSome(gradeFeedback')
            /\ Get(gradeFeedback') \in GradePayloads
            /\ LET result == Get(gradeFeedback')
               IN  /\ xp' = xp + (IF IsSome(result.xp_earned)
                                  THEN Get(result.xp_earned) ELSE 0)
                   /\ (result.score >= 2) => (score' = score + 1)
                   /\ (result.score < 2) => (score' = score)
            /\ showResult' /\ ~grading' /\ gradeRequest' = None]_vars
    /\ [][(IsSome(gradeRequest) /\ view' = "game" /\ gradeSettled' = "rejected") =>
            /\ score' = score /\ xp' = xp
            /\ showResult' /\ ~grading' /\ gradeRequest' = None]_vars
    /\ [][(IsSome(gradeRequest) /\ view' = "game" /\ gradeRequest' = None) =>
            gradeSettled' \in {"resolved", "rejected"}]_vars

\* a response with score 2 and no xp_earned: a point, no XP
C26_Witness ==
    /\ view = "game"
    /\ gradeSettled = "resolved"
    /\ IsSome(gradeFeedback)
    /\ Get(gradeFeedback).score = 2
    /\ Get(gradeFeedback).xp_earned = None
    /\ showResult /\ ~grading
    /\ currentQ = 0
    /\ score = 1
    /\ xp = 0

\* C27: the message list starts with the assistant's greeting and roles
\* alternate assistant, user, assistant, ...; the last message is a user
\* message exactly while loading; only assistant messages carry sources; the
\* list grows by one message at a time, a user message only from a non-blank
\* input while not loading, an assistant message only to end the loading
C27_RolesAlternate ==
    /\ [](/\ Len(messages) >= 1
          /\ messages[1] = [role |-> "assistant", content |-> <<"H", "i">>,
                            sources |-> None]
          /\ \A i \in 1..Len(messages) :
               /\ messages[i].role = (IF i % 2 = 1 THEN "assistant" ELSE "user")
               /\ (messages[i].role = "user") => (messages[i].sources = None)
          /\ chatLoading <=> (messages[Len(messages)].role = "user"))
    /\ [][(view = "chat" /\ view' = "chat" /\ messages' # messages) =>
            /\ Len(messages') = Len(messages) + 1
            /\ SubSeq(messages', 1, Len(messages)) = messages
            /\ LET new == messages'[Len(messages')]
               IN  IF new.role = "user"
                   THEN /\ ~chatLoading /\ chatLoading'
                        /\ Trim(input) # <<>>
                        /\ new.content = input
                   ELSE /\ chatLoading /\ ~chatLoading'
                        /\ IsSome(chatRequest) /\ chatRequest' = None]_vars
    /\ [][(view = "chat" /\ view' = "chat" /\ chatLoading' # chatLoading) =>
            messages' # messages]_vars

\* two questions asked: the first answered with sources, the second failed
C27_Witness ==
    /\ view = "chat"
    /\ ~chatLoading
    /\ Len(messages) = 5
    /\ IsSome(messages[3].sources)
    /\ messages[5].content = ErrorNotice
    /\ chatSettled = "rejected"

C29_LoadEndsOneOfTwoWays ==
    /\ [][(questionsInFlight /\ ~questionsInFlight' /\ view' = "game") =>
            /\ gameLoading /\ ~gameLoading'
            /\ questions = <<>>
            /\ \/ /\ gameError' = "null"
                  /\ quizLoaded'
                  /\ \E data \in QuestionsPayloads :
                       IsSome(data.questions) /\ questions' = Get(data.questions)
               \/ /\ gameError' \in {"Failed to load questions. Unexpected format.",
                                     "Failed to load quiz questions. Try again later."}
                  /\ questions' = <<>>
                  /\ quizLoaded' = quizLoaded]_vars
    /\ [](view = "game" =>
            /\ gameLoading <=> questionsInFlight
            /\ gameLoading => (questions = <<>> /\ gameError = "null")
            /\ (gameError # "null") =>
                 /\ questions = <<>> /\ ~CardShown
                 /\ currentQ = 0 /\ score = 0 /\ xp = 0
                 /\ ~showResult /\ ~gameComplete /\ gradeRequest = None)

\* a response without a questions array: the error is set, no quiz starts
C29_Witness ==
    /\ view = "game"
    /\ ~gameLoading
    /\ ~questionsInFlight
    /\ gameError = "Failed to load questions. Unexpected format."
    /\ questions = <<>>

\* C18: the history of a chat request holds only turns of the current chat
\* session, which is about one video: every entry into the chat view starts
\* from the greeting alone with no request in flight, the video does not
\* change and messages are only appended while the view stays, and a request
\* names that video and carries, in order, messages of the session
C18_HistoryOfThisSession ==
    /\ [][(view' = "chat" /\ view # "chat") =>
            /\ messages' = << [role |-> "assistant", content |-> <<"H", "i">>,
                              sources |-> None] >>
            /\ chatRequest' = None]_vars
    /\ [][(view = "chat" /\ view' = "chat") =>
            /\ videoData' = videoData
            /\ Len(messages') >= Len(messages)
            /\ SubSeq(messages', 1, Len(messages)) = messages]_vars
    /\ [](IsSome(chatRequest) =>
            /\ view = "chat" /\ IsSome(videoData)
            /\ Get(chatRequest).video_id = Get(videoData).video_id
            /\ LET h == Get(chatRequest).history
               IN  /\ Len(h) < Len(messages)
                   /\ \A i \in 1..Len(h) :
                        LET m == messages[Len(messages) - 1 - Len(h) + i]
                        IN  h[i] = [role |-> m.role, content |-> m.content])

\* the second question of a session about v2: its history is the greeting and
\* the first exchange
C18_Witness ==
    /\ view = "chat"
    /\ IsSome(chatRequest)
    /\ Get(chatRequest).video_id = "v2"
    /\ Len(messages) = 4
    /\ Len(Get(chatRequest).history) = 3
    /\ Get(chatRequest).history[2].role = "user"

\* C19: the sources shown are those of the answer shown: none while a
\* question is loading and after it failed; after an answer arrived, the
\* sources of the new assistant message, which are those the response carried
\* (none shown when it carried none)
C19_SourcesOfThisAnswer ==
    /\ [](chatLoading => currentSources = <<>>)
    /\ [](chatSettled = "rejected" =>
            /\ currentSources = <<>>
            /\ messages[Len(messages)].sources = None)
    /\ [](chatSettled = "resolved" =>
            LET m == messages[Len(messages)]
            IN  /\ m.role = "assistant"
                /\ currentSources = IF IsSome(m.sources) THEN Get(m.sources) ELSE <<>>)
    /\ [][(IsSome(chatRequest) /\ chatSettled' = "resolved") =>
            /\ Len(messages') = Len(messages) + 1
            /\ \E response \in ChatPayloads :
                 /\ messages'[Len(messages')] =
                      [role |-> "assistant", content |-> response.answer,
                       sources |-> response.sources]
                 /\ currentSources' = IF IsSome(response.sources)
                                      THEN Get(response.sources)
                                      ELSE <<>>]_vars

\* an answer with sources, then an answer without: nothing of the first
\* answer's sources is shown against the second
C19_Witness ==
    /\ view = "chat"
    /\ chatSettled = "resolved"
    /\ Len(messages) = 5
    /\ IsSome(messages[3].sources)
    /\ messages[5].sources = None
    /\ currentSources = <<>>

\* C20: every request in flight settles or is abandoned with its component,
\* a loading flag of a mounted component is up only while its request (or the
\* timer that follows the process response) is pending, and each loading flag
\* that is up comes down
C20_LoadingEnds ==
    /\ [](/\ urlLoading => (processInFlight > 0 \/ IsSome(readyTimer))
          /\ chatLoading => IsSome(chatRequest)
          /\ (view = "summary" /\ summaryLoading) => summaryInFlight
          /\ (view = "game" /\ gameLoading) => questionsInFlight
          /\ grading => IsSome(gradeRequest))
    /\ (processInFlight > 0) ~> (processInFlight = 0)
    /\ IsSome(chatRequest) ~> (chatRequest = None)
    /\ summaryInFlight ~> ~summaryInFlight
    /\ questionsInFlight ~> ~questionsInFlight
    /\ IsSome(gradeRequest) ~> (gradeRequest = None)
    /\ urlLoading ~> ~urlLoading
    /\ chatLoading ~> ~chatLoading
    /\ (view = "summary" /\ summaryLoading) ~> ~(view = "summary" /\ summaryLoading)
    /\ (view = "game" /\ gameLoading) ~> ~(view = "game" /\ gameLoading)
    /\ grading ~> ~grading

\* the process request ran into its timeout: the form is back, not loading
C20_Witness ==
    /\ view = "processing"
    /\ processInFlight = 0
    /\ ~urlLoading
    /\ urlError = ErrorMessage([code |-> "ECONNABORTED", response |-> None,
                                request |-> TRUE, message |-> "timeout"])

\* C30: the toasts shown have distinct ids, so a removeToast (from the close
\* button or the duration timer) removes one toast and leaves the others as
\* they are
C30_ToastIdsDistinct ==
    /\ [](\A i \in 1..Len(toasts) : \A j \in 1..Len(toasts) :
            (i # j) => (toasts[i].id # toasts[j].id))
    /\ [][(Len(toasts') < Len(toasts)) => (Len(toasts') = Len(toasts) - 1)]_vars

---------------------------------------------------------------------------
(* Properties of the retrieval core *)

\* C17: the chunks the splitter produces for a transcript are numbered
\* 0..n-1 in order, their start times never decrease, each chunk is a run of
\* consecutive segments and carries the start time of the first of them, the
\* first chunk begins with the first segment, and an empty transcript gives
\* no chunk
C17_SplitterOutput ==
    \A v \in Videos :
        IsSome(staged[v]) =>
            LET t == Get(staged[v]).transcript
                c == Get(staged[v]).target
            IN  /\ (t = <<>>) => (c = <<>>)
                /\ \A n \in 1..Len(c) : c[n].seq = n - 1
                /\ \A n \in 1..(Len(c) - 1) : c[n].start <= c[n + 1].start
                /\ \A n \in 1..Len(c) :
                     \E i \in 1..Len(t) : \E j \in i..Len(t) :
                         /\ c[n].text = Concat(t, i, j)
                         /\ c[n].start = t[i].start
                         /\ (n = 1) => (i = 1)
                         /\ (n = Len(c)) => (j = Len(t))

\* a three-segment transcript split into two overlapping chunks, both built
C17_Witness ==
    \E v \in Videos :
        /\ IsSome(staged[v])
        /\ Len(Get(staged[v]).transcript) = 3
        /\ Len(Get(staged[v]).target) = 2
        /\ Get(staged[v]).target[1].start = 0
        /\ Get(staged[v]).target[2].start = 30
        /\ Get(staged[v]).target[1].start # Get(staged[v]).transcript[2].start
        /\ Get(staged[v]).built = Get(staged[v]).target

\* C14: the registry holds only complete chunk sets, and a reader of a video
\* whose index is being rebuilt is given the old complete set or the new
\* complete set (a retrieve: the result over one of them), never a part-built one
C14_ReindexAtomic ==
    /\ [](\A v \in Videos :
            \/ index[v] = None
            \/ \E t \in Transcripts : t # <<>> /\ index[v] = Some(Chunks(v, t)))
    /\ [][(observed' # observed /\ IsSome(observed')) =>
            LET o == Get(observed')
                v == o.video
                old == indexed[v]
                new == IF IsSome(staged[v]) /\ Get(staged[v]).target # <<>>
                       THEN Some(Get(staged[v]).target)
                       ELSE indexed[v]
            IN  IF o.op = "read"
                THEN o.chunks \in {old, new}
                ELSE o.outcome \in
                       {RetrieveFrom(indexed, v, o.query, o.k),
                        RetrieveFrom([indexed EXCEPT ![v] = new], v, o.query, o.k)}]_vars

\* a read during a rebuild: the new index is part-built, the reader holds the
\* old set, which differs from the new one
C14_Witness ==
    /\ IsSome(observed)
    /\ Get(observed).op = "read"
    /\ IsSome(staged[Get(observed).video])
    /\ LET b == Get(staged[Get(observed).video])
       IN  /\ Len(b.built) > 0
           /\ Len(b.built) < Len(b.target)
           /\ IsSome(indexed[Get(observed).video])
           /\ Get(indexed[Get(observed).video]) # b.target
           /\ Get(observed).chunks = indexed[Get(observed).video]

\* C15: every chunk a retrieve returns is owned by the video it was asked for
C15_OwnChunksOnly ==
    (IsSome(observed) /\ Get(observed).op = "retrieve" /\ IsSome(Get(observed).outcome)) =>
        LET r == Get(Get(observed).outcome)
        IN  \A i \in 1..Len(r) : r[i].chunk.video = Get(observed).video

\* a retrieve that returned chunks while another video is indexed too
C15_Witness ==
    /\ IsSome(observed)
    /\ Get(observed).op = "retrieve"
    /\ IsSome(Get(observed).outcome)
    /\ Len(Get(Get(observed).outcome)) > 0
    /\ \E w \in Videos : w # Get(observed).video /\ IsSome(index[w])

\* C16: retrieve fails with IndexNotFound exactly when the video was never
\* indexed; otherwise it returns min(k, n) distinct chunks of the video's n
\* chunks with their scores, by descending score and, on equal scores, by
\* ascending sequence index, and no chunk left out ranks before a returned one
C16_TopK ==
    (IsSome(observed) /\ Get(observed).op = "retrieve") =>
        LET o == Get(observed)
            v == o.video
        IN  /\ (o.outcome = None) <=> (indexed[v] = None)
            /\ IsSome(o.outcome) =>
                 LET r == Get(o.outcome)
                     all == Get(indexed[v])
                     S == {all[i] : i \in 1..Len(all)}
                     got == {r[i].chunk : i \in 1..Len(r)}
                 IN  /\ Len(r) <= o.k
                     /\ Len(r) = Min(o.k, Len(all))
                     /\ Cardinality(got) = Len(r)
                     /\ got \subseteq S
                     /\ \A i \in 1..Len(r) :
                          r[i].score = Similarity(r[i].chunk.text, o.query)
                     /\ \A i \in 1..(Len(r) - 1) :
                          \/ r[i].score > r[i + 1].score
                          \/ /\ r[i].score = r[i + 1].score
                             /\ r[i].chunk.seq < r[i + 1].chunk.seq
                     /\ \A c \in S \ got : \A i \in 1..Len(r) :
                          \/ r[i].score > Similarity(c.text, o.query)
                          \/ /\ r[i].score = Similarity(c.text, o.query)
                             /\ r[i].chunk.seq < c.seq

\* k = 1 over two chunks of equal score: the earlier chunk is the one returned
C16_Witness ==
    /\ IsSome(observed)
    /\ Get(observed).op = "retrieve"
    /\ Get(observed).k = 1
    /\ IsSome(Get(observed).outcome)
    /\ IsSome(indexed[Get(observed).video])
    /\ LET all == Get(indexed[Get(observed).video])
           r == Get(Get(observed).outcome)
       IN  /\ Len(all) = 2
           /\ Similarity(all[1].text, Get(observed).query)
                = Similarity(all[2].text, Get(observed).query)
           /\ Len(r) = 1
           /\ r[1].chunk = all[1]
           /\ r[1].chunk.seq = 0

=============================================================================
